---- MODULE Spec2Model ----
(***************************************************************************)
(* A model of the AutoCAD MCP server (src/autocad_mcp/server.py): the      *)
(* AutoCADCOMServer object, the drawing application it drives over COM,    *)
(* and the tool dispatcher handle_call_tool.                               *)
(*                                                                         *)
(* Conventions.                                                            *)
(*  - A Python string on which the code applies lower() or the substring   *)
(*    test `in` is a sequence of one-character strings, so that both are   *)
(*    computed.  Names that are only compared (tool names, layer names,    *)
(*    JSON keys) are TLA+ strings.                                         *)
(*  - A Python value tested with isinstance is tagged: PyInt, PyStr,       *)
(*    PyNone.                                                              *)
(*  - Lengths and coordinates are exact numbers held in hundredths of a    *)
(*    drawing unit (0.1 is 10, 0.05 is 5); the inputs are chosen so that   *)
(*    every division the code performs is exact.                           *)
(*  - Every statement that crosses into the application (a COM property    *)
(*    read or write, a COM method call) is one external call.  External    *)
(*    calls are numbered within one invocation; a call fails when the      *)
(*    application cannot serve it or when its number is in the             *)
(*    invocation's set of injected failures.                               *)
(*  - A Python function is an operator from the state before it to the     *)
(*    state after it and its return value.                                 *)
(***************************************************************************)
EXTENDS Integers, Sequences, FiniteSets, TLC

VARIABLES
    srv,      \* the AutoCADCOMServer fields acad_app, doc, connected
    world,    \* the application: whether it runs, its drawings
    pc,       \* "start": before main connects; "idle": waiting for a request;
              \* "reply": a result is being sent back; "input" and "output":
              \* before and after a pure function is applied; "loop" and
              \* "task": the event loop is free, or runs an invocation
    req,      \* the request handled last: tool name, arguments, injected failures
    res,      \* what handle_call_tool returned for it
    pre,      \* srv and world as they were when the request arrived
    obs,      \* what the invocation did: external calls, connects, settle delays
    served,   \* requests taken since the process started
    inp,      \* the input of a pure-function check; the invocations scheduled
              \* on the event loop
    out       \* its result; the steps the event loop has executed, in order

vars == <<srv, world, pc, req, res, pre, obs, served, inp, out>>

-----------------------------------------------------------------------------
(* Bounds of the model *)

\* an injected failure hits one of the first MaxCall external calls
MaxCall == 5
\* drawings the application ever opens
MaxDocs == 2
\* requests one run of the server takes
MaxRequests == 1

-----------------------------------------------------------------------------
(* Python strings *)

UpperCase == <<"A","B","C","D","E","F","G","H","I","J","K","L","M",
               "N","O","P","Q","R","S","T","U","V","W","X","Y","Z">>
LowerCase == <<"a","b","c","d","e","f","g","h","i","j","k","l","m",
               "n","o","p","q","r","s","t","u","v","w","x","y","z">>

\* str.lower() on one character
LowerChar(c) ==
    IF \E i \in 1..Len(UpperCase) : UpperCase[i] = c
    THEN LowerCase[CHOOSE i \in 1..Len(UpperCase) : UpperCase[i] = c]
    ELSE c

\* str.lower()
lower(str) == [i \in 1..Len(str) |-> LowerChar(str[i])]

\* the Python test `key in str` on two strings
IsSubstring(key, str) ==
    \E i \in 0..(Len(str) - Len(key)) : SubSeq(str, i + 1, i + Len(key)) = key

PyInt(n) == [t |-> "int", v |-> n]
PyStr(str) == [t |-> "str", v |-> str]
PyNone == [t |-> "none"]

-----------------------------------------------------------------------------
(* AutoCADCOMServer.__init__: the fixed tables *)

color_map ==
       <<"r","e","d">> :> 1
    @@ <<"y","e","l","l","o","w">> :> 2
    @@ <<"g","r","e","e","n">> :> 3
    @@ <<"c","y","a","n">> :> 4
    @@ <<"b","l","u","e">> :> 5
    @@ <<"m","a","g","e","n","t","a">> :> 6
    @@ <<"w","h","i","t","e">> :> 7
    @@ <<"g","r","a","y">> :> 8
    @@ <<"l","i","g","h","t","_","g","r","a","y">> :> 9
    @@ <<"b","l","a","c","k">> :> 0
    @@ <<"b","y","l","a","y","e","r">> :> 256
    @@ <<"b","y","b","l","o","c","k">> :> 0

\* the fallback of color_map.get(color_lower, 7)
DefaultColorIndex == 7

\* an ordered dict: ensure_structure_layers and create_structure iterate it
layer_definitions ==
    <<
       [type |-> "walls", name |-> "WALLS", color |-> <<"w","h","i","t","e">>,
        description |-> "Building walls and partitions"],
       [type |-> "doors", name |-> "DOORS", color |-> <<"g","r","e","e","n">>,
        description |-> "Door openings and frames"],
       [type |-> "windows", name |-> "WINDOWS", color |-> <<"c","y","a","n">>,
        description |-> "Window openings and frames"],
       [type |-> "furniture", name |-> "FURNITURE", color |-> <<"y","e","l","l","o","w">>,
        description |-> "Furniture and fixtures"],
       [type |-> "electrical", name |-> "ELECTRICAL", color |-> <<"r","e","d">>,
        description |-> "Electrical fixtures and outlets"],
       [type |-> "plumbing", name |-> "PLUMBING", color |-> <<"b","l","u","e">>,
        description |-> "Plumbing fixtures and pipes"],
       [type |-> "hvac", name |-> "HVAC", color |-> <<"m","a","g","e","n","t","a">>,
        description |-> "HVAC ducts and equipment"],
       [type |-> "structure", name |-> "STRUCTURE", color |-> <<"g","r","a","y">>,
        description |-> "Structural elements"],
       [type |-> "annotation", name |-> "ANNOTATION", color |-> <<"w","h","i","t","e">>,
        description |-> "Text and dimensions"],
       [type |-> "site", name |-> "SITE", color |-> <<"g","r","e","e","n">>,
        description |-> "Site elements and landscaping"],
       [type |-> "utilities", name |-> "UTILITIES", color |-> <<"r","e","d">>,
        description |-> "Utility lines and equipment"]
    >>

\* layer_definitions[layer_type]
LayerDef(layer_type) ==
    layer_definitions[CHOOSE i \in 1..Len(layer_definitions) :
                          layer_definitions[i].type = layer_type]

-----------------------------------------------------------------------------
(* Color Resolver *)

GetColorIndexCaseSensitive(color) ==
    IF color.t = "int" THEN [exc |-> "none", v |-> color.v]
    ELSE IF color.t # "str" THEN [exc |-> "AttributeError", v |-> 0]
    ELSE IF color.v \in DOMAIN color_map
         THEN [exc |-> "none", v |-> color_map[color.v]]
         ELSE [exc |-> "none", v |-> DefaultColorIndex]

\* get_color_index: exc is the exception it raises, v the index it returns
get_color_index(color) ==
    IF color.t = "int" THEN [exc |-> "none", v |-> color.v]
    ELSE IF color.t # "str" THEN [exc |-> "AttributeError", v |-> 0]
    ELSE LET color_lower == lower(color.v)
         IN  IF color_lower \in DOMAIN color_map
             THEN [exc |-> "none", v |-> color_map[color_lower]]
             ELSE [exc |-> "none", v |-> DefaultColorIndex]

-----------------------------------------------------------------------------
(* Layer Classifier *)

\* the dict type_mapping of get_layer_for_structure_type, in declared order
type_mapping ==
    <<
       <<<<"w","a","l","l">>, "walls">>,
       <<<<"d","o","o","r">>, "doors">>,
       <<<<"w","i","n","d","o","w">>, "windows">>,
       <<<<"f","u","r","n","i","t","u","r","e">>, "furniture">>,
       <<<<"c","h","a","i","r">>, "furniture">>,
       <<<<"t","a","b","l","e">>, "furniture">>,
       <<<<"b","e","d">>, "furniture">>,
       <<<<"e","l","e","c","t","r","i","c","a","l">>, "electrical">>,
       <<<<"o","u","t","l","e","t">>, "electrical">>,
       <<<<"s","w","i","t","c","h">>, "electrical">>,
       <<<<"l","i","g","h","t">>, "electrical">>,
       <<<<"p","l","u","m","b","i","n","g">>, "plumbing">>,
       <<<<"t","o","i","l","e","t">>, "plumbing">>,
       <<<<"s","i","n","k">>, "plumbing">>,
       <<<<"h","v","a","c">>, "hvac">>,
       <<<<"v","e","n","t">>, "hvac">>,
       <<<<"d","u","c","t">>, "hvac">>,
       <<<<"s","t","r","u","c","t","u","r","e">>, "structure">>,
       <<<<"b","e","a","m">>, "structure">>,
       <<<<"c","o","l","u","m","n">>, "structure">>,
       <<<<"t","e","x","t">>, "annotation">>,
       <<<<"d","i","m","e","n","s","i","o","n">>, "annotation">>,
       <<<<"s","i","t","e">>, "site">>,
       <<<<"t","r","e","e">>, "site">>,
       <<<<"u","t","i","l","i","t","y">>, "utilities">>
    >>

\* the layer returned when no keyword matches
DefaultLayer == "0"

\* the loop `for key, layer_type in type_mapping.items()` from entry i on
RECURSIVE ScanTypeMapping(_, _)
ScanTypeMapping(structure_type_lower, i) ==
    IF i > Len(type_mapping) THEN DefaultLayer
    ELSE IF IsSubstring(type_mapping[i][1], structure_type_lower)
         THEN LayerDef(type_mapping[i][2]).name
         ELSE ScanTypeMapping(structure_type_lower, i + 1)

RECURSIVE ScanTypeMappingLast(_, _)
ScanTypeMappingLast(structure_type_lower, i) ==
    IF i < 1 THEN DefaultLayer
    ELSE IF IsSubstring(type_mapping[i][1], structure_type_lower)
         THEN LayerDef(type_mapping[i][2]).name
         ELSE ScanTypeMappingLast(structure_type_lower, i - 1)

GetLayerLastMatch(structure_type) ==
    ScanTypeMappingLast(lower(structure_type), Len(type_mapping))

get_layer_for_structure_type(structure_type) ==
    ScanTypeMapping(lower(structure_type), 1)

-----------------------------------------------------------------------------
(* The application and its drawings *)

\* the ACI range the application accepts for a Color property
ValidACI == 0..256

\* what a drawing holds when the application creates it
NewDrawing ==
    [open |-> TRUE,
     layers |-> <<[name |-> DefaultLayer, color |-> DefaultColorIndex,
                   description |-> ""]>>,
     active |-> DefaultLayer,
     ents |-> <<>>,
     next |-> 0]

\* a drawing the application has closed: nothing of it can be reached any more
ClosedDrawing ==
    [open |-> FALSE, layers |-> <<>>, active |-> DefaultLayer, ents |-> <<>>, next |-> 0]

\* the state a Python function runs in: the server's fields, the application,
\* and the invocation's counters
State(server, app, injected) ==
    [acad_app |-> server.acad_app, doc |-> server.doc, connected |-> server.connected,
     acad |-> app.acad, docs |-> app.docs, activeDoc |-> app.activeDoc,
     fault |-> injected, k |-> 0, connects |-> 0, sleeps |-> 0, pauses |-> 0]

ServerOf(s) == [acad_app |-> s.acad_app, doc |-> s.doc, connected |-> s.connected]
WorldOf(s) == [acad |-> s.acad, docs |-> s.docs, activeDoc |-> s.activeDoc]
ObsOf(s) == [k |-> s.k, connects |-> s.connects, sleeps |-> s.sleeps,
             pauses |-> s.pauses]

\* the next external call is being made
Tick(s) == [s EXCEPT !.k = @ + 1]
\* the call just made is one of the injected failures
Injected(s) == s.k \in s.fault
\* a call on self.acad_app is served
AppOK(s) == s.acad = "running" /\ s.acad_app # 0 /\ ~Injected(s)
\* a call on self.doc (or on an object obtained from it) is served
DocOK(s) ==
    /\ s.acad = "running"
    /\ s.doc # 0
    /\ s.docs[s.doc].open
    /\ ~Injected(s)

\* the drawing self.doc refers to
Dwg(s) == s.docs[s.doc]
SetDwg(s, d) == [s EXCEPT !.docs[s.doc] = d]

\* the names in a drawing's layer collection, which is kept in creation order
LayerNames(d) == {d.layers[i].name : i \in 1..Len(d.layers)}
\* layers.Item(layer_name)
LayerIndex(d, layer_name) ==
    CHOOSE i \in 1..Len(d.layers) : d.layers[i].name = layer_name

\* time.sleep inside safe_operation
Sleep(s) == [s EXCEPT !.sleeps = @ + 1]

-----------------------------------------------------------------------------
(* Connection and Layer Registry *)
(* A function that makes several external calls is written as a chain of     *)
(* operators, one per stretch of statements: each takes the state the        *)
(* stretch starts in and hands the state it ends in to the next.             *)

RECURSIVE connect_to_autocad(_)
RECURSIVE ensure_connection(_)
RECURSIVE create_or_get_layer(_, _, _, _)
RECURSIVE ensure_structure_layers(_, _)

Failed(s) == [s |-> s, v |-> FALSE]
Done(s) == [s |-> s, v |-> TRUE]

\* ensure_structure_layers with a loop that stops one entry short of the end
\* of layer_definitions
EnsureLayersButLast(s, i) ==
    IF i >= Len(layer_definitions) THEN s
    ELSE LET layer_info == layer_definitions[i]
             made == create_or_get_layer(s, layer_info.name, PyStr(layer_info.color),
                                         layer_info.description)
         IN  IF made.v THEN ensure_structure_layers(made.s, i + 1)
             ELSE ensure_structure_layers(made.s, i + 1)

\* ensure_structure_layers, from entry i of layer_definitions on; what
\* create_or_get_layer returns is dropped, so the loop goes on either way
ensure_structure_layers(s, i) ==
    IF i > Len(layer_definitions) THEN s
    ELSE LET layer_info == layer_definitions[i]
             made == create_or_get_layer(s, layer_info.name, PyStr(layer_info.color),
                                         layer_info.description)
         IN  IF made.v THEN ensure_structure_layers(made.s, i + 1)
             ELSE ensure_structure_layers(made.s, i + 1)

\* the except branch of connect_to_autocad, entered in the state the try block
\* raised in
ConnectFallback(raised) ==
    LET \* self.acad_app = Dispatch("AutoCAD.Application"): attaches or launches
        d1 == Tick(raised)
        okd1 == d1.acad \in {"running", "stopped"} /\ ~Injected(d1)
        \* self.acad_app.Visible = True
        d2 == Tick([d1 EXCEPT !.acad = "running", !.acad_app = 1])
        \* self.doc = self.acad_app.Documents.Add()
        d3 == Tick(d2)
        okd3 == AppOK(d3) /\ Len(d3.docs) < MaxDocs
    IN  IF ~okd1 THEN Failed(d1)
        ELSE IF ~AppOK(d2) THEN Failed(d2)
        ELSE IF ~okd3 THEN Failed(d3)
        ELSE Done(ensure_structure_layers(
                      [d3 EXCEPT !.docs = Append(@, NewDrawing),
                                 !.activeDoc = Len(d3.docs) + 1,
                                 !.doc = Len(d3.docs) + 1,
                                 !.connected = TRUE], 1))

\* the try block of connect_to_autocad up to `self.connected = True`: the state
\* it ends or raises in, and whether it raised
ConnectActive(s) ==
    LET \* self.acad_app = GetActiveObject("AutoCAD.Application")
        c1 == Tick([s EXCEPT !.connects = @ + 1])
        ok1 == c1.acad = "running" /\ ~Injected(c1)
        \* self.acad_app.Visible = True
        c2 == Tick([c1 EXCEPT !.acad_app = 1])
        \* self.doc = self.acad_app.ActiveDocument (raises when no drawing is open)
        c3 == Tick(c2)
        ok3 == AppOK(c3) /\ c3.activeDoc # 0
        \* _ = str(self.doc.Name)
        c4 == Tick([c3 EXCEPT !.doc = c3.activeDoc])
    IN  IF ~ok1 THEN Failed(c1)
        ELSE IF ~AppOK(c2) THEN Failed(c2)
        ELSE IF ~ok3 THEN Failed(c3)
        ELSE IF ~DocOK(c4) THEN Failed(c4)
        ELSE Done([c4 EXCEPT !.connected = TRUE])

\* connect_to_autocad once the first part of its try block has ended as tried
ConnectOutcome(tried) ==
    IF tried.v THEN Done(ensure_structure_layers(tried.s, 1))
    ELSE ConnectFallback(tried.s)

connect_to_autocad(s) == ConnectOutcome(ConnectActive(s))

\* the probe of ensure_connection: c1 is the state after `_ = str(self.doc.Name)`
ProbeConnection(c1) ==
    IF DocOK(c1) THEN Done(c1)
    ELSE connect_to_autocad([c1 EXCEPT !.connected = FALSE])

ensure_connection(s) ==
    IF ~s.connected THEN connect_to_autocad(s) ELSE ProbeConnection(Tick(s))

\* the layer of that name in drawing d gets this color
PaintLayer(d, layer_name, color_index) ==
    [d EXCEPT !.layers[LayerIndex(d, layer_name)].color = color_index]

\* the layer of that name in drawing d gets this description
DescribeLayer(d, layer_name, description) ==
    [d EXCEPT !.layers[LayerIndex(d, layer_name)].description = description]

\* layers.Add(layer_name) on drawing d: the layer of that name, made if absent
AddLayer(d, layer_name) ==
    IF layer_name \in LayerNames(d) THEN d
    ELSE [d EXCEPT !.layers = Append(@, [name |-> layer_name,
                                         color |-> DefaultColorIndex,
                                         description |-> ""])]

\* `new_layer.Description = description` in its own try, then `return True`;
\* c5 is the state after the assignment was attempted
LayerDescribed(c5, layer_name, description) ==
    IF DocOK(c5) THEN Done(SetDwg(c5, DescribeLayer(Dwg(c5), layer_name, description)))
    ELSE Done(c5)

\* `new_layer.Color = color_index`; c4 is the state after it was attempted
LayerPainted(c4, layer_name, color_index, description) ==
    IF ~(DocOK(c4) /\ color_index \in ValidACI) THEN Failed(c4)
    ELSE LayerDescribed(Tick(SetDwg(c4, PaintLayer(Dwg(c4), layer_name, color_index))),
                        layer_name, description)

\* the branch `if not layer_exists:`; c3 is the state after layers.Add was
\* attempted
LayerAdded(c3, layer_name, color_index, description) ==
    IF ~DocOK(c3) THEN Failed(c3)
    ELSE IF color_index.exc # "none" THEN Failed(SetDwg(c3, AddLayer(Dwg(c3), layer_name)))
    ELSE LayerPainted(Tick(SetDwg(c3, AddLayer(Dwg(c3), layer_name))),
                      layer_name, color_index.v, description)

\* create_or_get_layer after ensure_connection returned e
LayerLookup(e, layer_name, color, description) ==
    LET c1 == Tick(e.s)    \* layers = self.doc.Layers
        c2 == Tick(c1)     \* existing_layer = layers.Item(layer_name)
    IN  IF ~e.v THEN Failed(e.s)
        ELSE IF ~DocOK(c1) THEN Failed(c1)
        ELSE IF DocOK(c2) /\ layer_name \in LayerNames(Dwg(c2)) THEN Done(c2)
        ELSE LayerAdded(Tick(c2), layer_name, get_color_index(color), description)

create_or_get_layer(s, layer_name, color, description) ==
    LayerLookup(ensure_connection(s), layer_name, color, description)

\* set_current_layer after ensure_connection returned e
LayerActivated(e, layer_name) ==
    LET c1 == Tick(e.s)    \* layers = self.doc.Layers
        c2 == Tick(c1)     \* layer = layers.Item(layer_name)
        c3 == Tick(c2)     \* self.doc.ActiveLayer = layer
    IN  IF ~e.v THEN Failed(e.s)
        ELSE IF ~DocOK(c1) THEN Failed(c1)
        ELSE IF ~(DocOK(c2) /\ layer_name \in LayerNames(Dwg(c2))) THEN Failed(c2)
        ELSE IF ~DocOK(c3) THEN Failed(c3)
        ELSE Done(SetDwg(c3, [Dwg(c3) EXCEPT !.active = layer_name]))

\* set_current_layer returning True from its except clause as well
SetCurrentLayerAlwaysTrue(s, layer_name) ==
    Done(LayerActivated(ensure_connection(s), layer_name).s)

set_current_layer(s, layer_name) ==
    LayerActivated(ensure_connection(s), layer_name)

-----------------------------------------------------------------------------
(* Retry-Wrapped Executor and the primitive constructors *)

\* color 256 is "bylayer", what a new entity has
ByLayer == color_map[<<"b","y","l","a","y","e","r">>]

\* a Python reference to an entity, or None
None == [some |-> FALSE]
Some(h) == [some |-> TRUE, h |-> h]

\* create_variant_point(p[0], p[1], p[2] if len(p) > 2 else 0.0)
create_variant_point(p) == <<p[1], p[2], IF Len(p) > 2 THEN p[3] ELSE 0>>

\* what the application's AddLine, AddCircle, AddArc, AddText accept
Accepts(type, geom) ==
    IF type \in {"AcDbCircle", "AcDbArc"} THEN geom.radius > 0 ELSE TRUE

\* the entity added last to drawing d gets this color
PaintLast(d, color_index) == [d EXCEPT !.ents[Len(d.ents)].color = color_index]

\* set_entity_color after get_color_index returned; c1 is the state after
\* `entity.Color = color_index` was attempted
EntityPainted(s, c1, color_index) ==
    IF color_index.exc # "none" THEN s
    ELSE IF DocOK(c1) /\ color_index.v \in ValidACI
         THEN SetDwg(c1, PaintLast(Dwg(c1), color_index.v))
         ELSE c1

\* set_entity_color on the entity added last; every failure is swallowed
set_entity_color(s, color) == EntityPainted(s, Tick(s), get_color_index(color))

\* model_space.AddLine(...), AddCircle(...), ... on drawing d
AddEntity(d, type, geom) ==
    [d EXCEPT !.ents = Append(@, [handle |-> <<"H", d.next + 1>>, type |-> type,
                                  layer |-> d.active, color |-> ByLayer,
                                  geom |-> geom]),
              !.next = @ + 1]

\* the handle of the entity added last to the drawing of s
LastHandle(s) == Dwg(s).ents[Len(Dwg(s).ents)].handle

\* the end of an operation function inside safe_operation; c4 is the state after
\* self.doc.Regen(...) was attempted
Regenerated(c4) ==
    IF DocOK(c4) THEN [s |-> Sleep(c4), obj |-> Some(LastHandle(c4))]
    ELSE [s |-> Sleep(c4), obj |-> None]

\* safe_operation whose except clause returns None without the settle delay
SafeOperationNoDelayOnError(s, type, geom, color) ==
    LET c1 == Tick(s)
        c2 == Tick(c1)
    IN  IF ~DocOK(c1) THEN [s |-> c1, obj |-> None]
        ELSE IF ~(DocOK(c2) /\ Accepts(type, geom)) THEN [s |-> c2, obj |-> None]
        ELSE Regenerated(Tick(set_entity_color(SetDwg(c2, AddEntity(Dwg(c2), type, geom)),
                                               color)))

\* safe_operation applied to one of the nested functions line_operation,
\* circle_operation, text_operation, arc_operation, ...: obj is what it returns
safe_operation(s, type, geom, color) ==
    LET c1 == Tick(s)      \* model_space = self.doc.ModelSpace
        c2 == Tick(c1)     \* entity = model_space.AddLine(...), AddCircle(...), ...
    IN  IF ~DocOK(c1) THEN [s |-> Sleep(c1), obj |-> None]
        ELSE IF ~(DocOK(c2) /\ Accepts(type, geom)) THEN [s |-> Sleep(c2), obj |-> None]
        ELSE Regenerated(Tick(set_entity_color(SetDwg(c2, AddEntity(Dwg(c2), type, geom)),
                                               color)))

\* str(obj.Handle) on an entity; c1 is the state after the read was attempted
HandleRead(c1, handles, h, placeholder) ==
    IF DocOK(c1) THEN [s |-> c1, handles |-> Append(handles, h)]
    ELSE [s |-> c1, handles |-> Append(handles, <<placeholder>>)]

\* the statements `if obj: try: handles.append(str(obj.Handle)) except:
\* handles.append(placeholder)`
AppendHandle(s, handles, obj, placeholder) ==
    IF ~obj.some THEN [s |-> s, handles |-> handles]
    ELSE HandleRead(Tick(s), handles, obj.h, placeholder)

\* the same without the `if obj:` guard: reading None.Handle raises and the
\* placeholder is appended
AppendHandleUnguarded(s, handles, obj, placeholder) ==
    IF ~obj.some THEN [s |-> s, handles |-> Append(handles, <<placeholder>>)]
    ELSE HandleRead(Tick(s), handles, obj.h, placeholder)

NotConnected == [error |-> <<"Not connected to AutoCAD">>]

\* "X" + (" with thickness" if thickness > 0 else "")
TypeName(type, thickness) == IF thickness > 0 THEN <<type, " with thickness">> ELSE <<type>>

\* the largest r in lo..hi with r * r <= n
RECURSIVE SqrtBetween(_, _, _)
SqrtBetween(n, lo, hi) ==
    IF lo >= hi THEN lo
    ELSE LET mid == (lo + hi + 1) \div 2
         IN  IF mid * mid <= n THEN SqrtBetween(n, mid, hi)
             ELSE SqrtBetween(n, lo, mid - 1)

Abs(x) == IF x < 0 THEN 0 - x ELSE x

\* math.sqrt(dx ** 2 + dy ** 2) on the inputs of the model, whose segments have
\* whole lengths (the integer square root, searched below |dx| + |dy|)
Hypot(dx, dy) == SqrtBetween(dx * dx + dy * dy, 0, Abs(dx) + Abs(dy))

calculate_parallel_points(start, end, thickness) ==
    LET x1 == start[1]
        y1 == start[2]
        x2 == end[1]
        y2 == end[2]
        dx == x2 - x1
        dy == y2 - y1
        length == Hypot(dx, dy)
        offset == thickness \div 2
        perp_x == ((0 - dy) * offset) \div length
        perp_y == (dx * offset) \div length
    IN  IF length = 0 THEN <<start, end>>
        ELSE << <<x1 + perp_x, y1 + perp_y>>, <<x2 + perp_x, y2 + perp_y>> >>

LineGeom(p, q) == [start |-> create_variant_point(p), end |-> create_variant_point(q)]
\* the parallel line and the caps are built with z = 0.0
FlatLineGeom(p, q) == [start |-> <<p[1], p[2], 0>>, end |-> <<q[1], q[2], 0>>]

\* the dictionary create_line returns from its try block
LineResult(h, color, thickness) ==
    [s |-> h.s,
     r |-> [success |-> TRUE, handles |-> h.handles,
            type |-> TypeName("AcDbLine", thickness), color |-> color,
            thickness |-> thickness]]

\* create_line after both caps were attempted
CapsDrawn(handles, cap1, cap2, color, thickness) ==
    LET h3 == AppendHandle(cap2.s, handles, cap1.obj, "line_cap1")
    IN  LineResult(AppendHandle(h3.s, h3.handles, cap2.obj, "line_cap2"),
                   color, thickness)

\* create_line after cap1 was attempted
Cap1Drawn(handles, cap1, end, end_parallel, color, thickness) ==
    CapsDrawn(handles, cap1,
              safe_operation(cap1.s, "AcDbLine", FlatLineGeom(end, end_parallel), color),
              color, thickness)

\* create_line after the parallel line's handle was appended
ParallelAppended(h2, start, end, par, color, thickness) ==
    Cap1Drawn(h2.handles,
              safe_operation(h2.s, "AcDbLine", FlatLineGeom(start, par[1]), color),
              end, par[2], color, thickness)

\* create_line after the parallel line was attempted
ParallelDrawn(handles, parallel_line, start, end, par, color, thickness) ==
    ParallelAppended(AppendHandle(parallel_line.s, handles, parallel_line.obj,
                                  "line_parallel"),
                     start, end, par, color, thickness)

\* the block `if thickness > 0 and main_line:`, entered with the main line's
\* handle appended
LineThickened(h1, start, end, par, color, thickness) ==
    ParallelDrawn(h1.handles,
                  safe_operation(h1.s, "AcDbLine", FlatLineGeom(par[1], par[2]), color),
                  start, end, par, color, thickness)

\* create_line after the main line was attempted
LineDrawn(main_line, start, end, color, thickness) ==
    IF ~main_line.obj.some
    THEN LineResult([s |-> main_line.s, handles |-> << <<"line_created">> >>],
                    color, thickness)
    ELSE IF thickness > 0
    THEN LineThickened(AppendHandle(main_line.s, <<>>, main_line.obj, "line_main"),
                       start, end, calculate_parallel_points(start, end, thickness),
                       color, thickness)
    ELSE LineResult(AppendHandle(main_line.s, <<>>, main_line.obj, "line_main"),
                    color, thickness)

\* create_line after ensure_connection returned e
LineConnected(e, start, end, color, thickness) ==
    IF ~e.v THEN [s |-> e.s, r |-> NotConnected]
    ELSE LineDrawn(safe_operation(e.s, "AcDbLine", LineGeom(start, end), color),
                   start, end, color, thickness)

create_line(s, start, end, color, thickness) ==
    LineConnected(ensure_connection(s), start, end, color, thickness)

\* the floor of the inner radius of a thick circle or arc: 0.1
MinInnerRadius == 10

Max(a, b) == IF a >= b THEN a ELSE b
Min(a, b) == IF a <= b THEN a ELSE b

CircleGeom(center, radius) == [center |-> create_variant_point(center), radius |-> radius]

\* the dictionary create_circle returns
CircleResult(h, color, thickness) ==
    [s |-> h.s,
     r |-> [success |-> TRUE, handles |-> h.handles,
            type |-> TypeName("AcDbCircle", thickness), color |-> color,
            thickness |-> thickness]]

\* create_circle after the outer and the inner circle were attempted
RingDrawn(handles, outer_circle, inner_circle, color, thickness) ==
    LET h2 == AppendHandle(inner_circle.s, handles, outer_circle.obj, "circle_outer")
    IN  CircleResult(AppendHandle(h2.s, h2.handles, inner_circle.obj, "circle_inner"),
                     color, thickness)

\* create_circle drawing the inner circle with radius r - t/2, without the floor
OuterDrawnNoFloor(handles, outer_circle, center, radius, color, thickness) ==
    RingDrawn(handles, outer_circle,
              safe_operation(outer_circle.s, "AcDbCircle",
                  CircleGeom(center, radius - thickness \div 2), color),
              color, thickness)

\* create_circle after the outer circle was attempted
OuterDrawn(handles, outer_circle, center, radius, color, thickness) ==
    RingDrawn(handles, outer_circle,
              safe_operation(outer_circle.s, "AcDbCircle",
                  CircleGeom(center, Max(MinInnerRadius, radius - thickness \div 2)),
                  color),
              color, thickness)

\* create_circle with the main circle's handle appended
CircleAppended(h1, center, radius, color, thickness) ==
    IF thickness > 0
    THEN OuterDrawn(h1.handles,
                    safe_operation(h1.s, "AcDbCircle",
                        CircleGeom(center, radius + thickness \div 2), color),
                    center, radius, color, thickness)
    ELSE CircleResult(h1, color, thickness)

\* create_circle after the main circle was attempted
CircleDrawn(main_circle, center, radius, color, thickness) ==
    CircleAppended(AppendHandle(main_circle.s, <<>>, main_circle.obj, "circle_main"),
                   center, radius, color, thickness)

\* create_circle after ensure_connection returned e
CircleConnected(e, center, radius, color, thickness) ==
    IF ~e.v THEN [s |-> e.s, r |-> NotConnected]
    ELSE CircleDrawn(safe_operation(e.s, "AcDbCircle", CircleGeom(center, radius), color),
                     center, radius, color, thickness)

create_circle(s, center, radius, color, thickness) ==
    CircleConnected(ensure_connection(s), center, radius, color, thickness)

\* the loop `for start, end in lines` of create_rectangle, from edge i on
RECURSIVE RectangleEdges(_, _, _, _, _, _)
RectangleEdges(s, lines, i, color, thickness, handles) ==
    IF i > Len(lines) THEN [s |-> s, handles |-> handles]
    ELSE LET result == create_line(s, lines[i][1], lines[i][2], color, thickness)
         IN  IF "success" \in DOMAIN result.r /\ result.r.success
             THEN RectangleEdges(result.s, lines, i + 1, color, thickness,
                                 handles \o result.r.handles)
             ELSE RectangleEdges(result.s, lines, i + 1, color, thickness, handles)

\* the list `lines` with the top edge issued before the right edge
RectangleLinesTopFirst(x1, y1, x2, y2) ==
    << << <<x1, y1>>, <<x2, y1>> >>,
       << <<x2, y2>>, <<x1, y2>> >>,
       << <<x2, y1>>, <<x2, y2>> >>,
       << <<x1, y2>>, <<x1, y1>> >> >>

\* the list `lines` of create_rectangle
RectangleLines(x1, y1, x2, y2) ==
    << << <<x1, y1>>, <<x2, y1>> >>,     \* Bottom
       << <<x2, y1>>, <<x2, y2>> >>,     \* Right
       << <<x2, y2>>, <<x1, y2>> >>,     \* Top
       << <<x1, y2>>, <<x1, y1>> >> >>   \* Left

\* the dictionary create_rectangle returns
RectangleResult(edges, color, thickness) ==
    [s |-> edges.s,
     r |-> [success |-> TRUE, handles |-> edges.handles,
            type |-> TypeName("Rectangle", thickness), color |-> color,
            thickness |-> thickness]]

\* create_rectangle after ensure_connection returned e
RectangleConnected(e, corner1, corner2, color, thickness) ==
    IF ~e.v THEN [s |-> e.s, r |-> NotConnected]
    ELSE RectangleResult(
             RectangleEdges(e.s, RectangleLines(corner1[1], corner1[2],
                                                corner2[1], corner2[2]),
                            1, color, thickness, <<>>),
             color, thickness)

create_rectangle(s, corner1, corner2, color, thickness) ==
    RectangleConnected(ensure_connection(s), corner1, corner2, color, thickness)

\* the dictionary create_text returns from its try block
TextResult(s, handle, color) ==
    [s |-> s,
     r |-> [success |-> TRUE, handle |-> handle, type |-> <<"AcDbText">>,
            color |-> color]]

\* `handle = str(text_obj.Handle)` in its own try; c1 is the state after the read
\* was attempted on an entity
TextHandleRead(c1, h, color) ==
    IF DocOK(c1) THEN TextResult(c1, h, color)
    ELSE TextResult(c1, <<"text_created">>, color)

\* create_text after the text was attempted
TextDrawn(text_obj, color) ==
    IF text_obj.obj.some THEN TextHandleRead(Tick(text_obj.s), text_obj.obj.h, color)
    ELSE TextResult(text_obj.s, <<"text_created">>, color)

\* create_text after ensure_connection returned e
TextConnected(e, position, text, height, color) ==
    IF ~e.v THEN [s |-> e.s, r |-> NotConnected]
    ELSE TextDrawn(safe_operation(e.s, "AcDbText",
                       [position |-> create_variant_point(position), text |-> text,
                        height |-> height], color),
                   color)

create_text(s, position, text, height, color) ==
    TextConnected(ensure_connection(s), position, text, height, color)

\* the angles are kept in degrees; the application is handed math.radians of them
ArcGeom(center, radius, start_angle, end_angle) ==
    [center |-> create_variant_point(center), radius |-> radius,
     start_angle |-> start_angle, end_angle |-> end_angle]

\* the dictionary create_arc returns from its try block
ArcResult(h, color, thickness, start_angle, end_angle) ==
    [s |-> h.s,
     r |-> [success |-> TRUE, handles |-> h.handles,
            type |-> TypeName("AcDbArc", thickness), color |-> color,
            thickness |-> thickness, start_angle |-> start_angle,
            end_angle |-> end_angle]]

\* create_arc after the inner and the outer arc were attempted
ArcsDrawn(handles, inner_arc, outer_arc, color, thickness, start_angle, end_angle) ==
    LET h2 == AppendHandleUnguarded(outer_arc.s, handles, inner_arc.obj, "arc_inner")
    IN  ArcResult(AppendHandleUnguarded(h2.s, h2.handles, outer_arc.obj, "arc_outer"),
                  color, thickness, start_angle, end_angle)

\* create_arc after the inner arc was attempted
InnerArcDrawn(handles, inner_arc, center, radius, start_angle, end_angle, color, thickness) ==
    ArcsDrawn(handles, inner_arc,
              safe_operation(inner_arc.s, "AcDbArc",
                  ArcGeom(center, radius + thickness \div 2, start_angle, end_angle),
                  color),
              color, thickness, start_angle, end_angle)

\* create_arc with the main arc's handle appended
ArcAppended(h1, center, radius, start_angle, end_angle, color, thickness) ==
    IF thickness > 0
    THEN InnerArcDrawn(h1.handles,
                       safe_operation(h1.s, "AcDbArc",
                           ArcGeom(center, Max(MinInnerRadius, radius - thickness \div 2),
                                   start_angle, end_angle), color),
                       center, radius, start_angle, end_angle, color, thickness)
    ELSE ArcResult(h1, color, thickness, start_angle, end_angle)

\* create_arc after the main arc was attempted
ArcDrawn(main_arc, center, radius, start_angle, end_angle, color, thickness) ==
    ArcAppended(AppendHandleUnguarded(main_arc.s, <<>>, main_arc.obj, "arc_main"),
                center, radius, start_angle, end_angle, color, thickness)

\* create_arc after ensure_connection returned e
ArcConnected(e, center, radius, start_angle, end_angle, color, thickness) ==
    IF ~e.v THEN [s |-> e.s, r |-> NotConnected]
    ELSE ArcDrawn(safe_operation(e.s, "AcDbArc",
                      ArcGeom(center, radius, start_angle, end_angle), color),
                  center, radius, start_angle, end_angle, color, thickness)

create_arc(s, center, radius, start_angle, end_angle, color, thickness) ==
    ArcConnected(ensure_connection(s), center, radius, start_angle, end_angle, color,
                 thickness)

\* zoom_extents after ensure_connection returned e
Zoomed(e) ==
    LET c1 == Tick(e.s)      \* self.acad_app.ZoomExtents()
    IN  IF ~e.v THEN [s |-> e.s, r |-> NotConnected]
        ELSE IF AppOK(c1) THEN [s |-> c1, r |-> [success |-> TRUE]]
        ELSE [s |-> c1, r |-> [error |-> <<"Failed to zoom extents: ", "com_error">>]]

zoom_extents(s) == Zoomed(ensure_connection(s))

-----------------------------------------------------------------------------
(* Structures *)

\* result.get("success") taken as a condition
Succeeded(r) == "success" \in DOMAIN r /\ r.success = TRUE

\* result.get("handles", [])
HandlesOf(r) == IF "handles" \in DOMAIN r THEN r.handles ELSE <<>>

\* `if result.get("success"): handles.extend(result.get("handles", []))`
Extend(handles, r) == IF Succeeded(r) THEN handles \o HandlesOf(r) ELSE handles

\* the truth value of an optional name (None and "" are false)
Truthy(x) == x.t = "str" /\ x.v # ""
\* the truth value of a color argument (None, "" and 0 are false)
TruthyColor(x) ==
    \/ x.t = "str" /\ Len(x.v) > 0
    \/ x.t = "int" /\ x.v # 0

\* the wall thickness used when none is given: 0.1
DefaultWallThickness == 10
\* the perpendicular offset of a window's sill line: 0.05
SillOffset == 5
\* the text height of a label: 0.2
LabelHeight == 20

White == PyStr(<<"w","h","i","t","e">>)

\* create_wall handing the thickness it was given to create_line
CreateWallAsGiven(s, geometry_data, color, thickness) ==
    IF "start" \notin DOMAIN geometry_data \/ "end" \notin DOMAIN geometry_data
    THEN [s |-> s, r |-> [error |-> <<"Wall requires start and end points">>]]
    ELSE create_line(s, geometry_data.start, geometry_data.end, color, thickness)

create_wall(s, geometry_data, color, thickness) ==
    IF "start" \notin DOMAIN geometry_data \/ "end" \notin DOMAIN geometry_data
    THEN [s |-> s, r |-> [error |-> <<"Wall requires start and end points">>]]
    ELSE create_line(s, geometry_data.start, geometry_data.end, color,
                     IF thickness > 0 THEN thickness ELSE DefaultWallThickness)

\* the dictionary create_door returns
DoorResult(s, handles, color) ==
    [s |-> s, r |-> [success |-> TRUE, handles |-> handles, type |-> <<"Door">>,
                     color |-> color]]

\* create_door after the swing arc was attempted
DoorSwung(handles, arc_result, color) ==
    DoorResult(arc_result.s, Extend(handles, arc_result.r), color)

\* create_door after the opening line was attempted
DoorOpened(result, geometry_data, color) ==
    IF "width" \in DOMAIN geometry_data
    THEN DoorSwung(Extend(<<>>, result.r),
                   create_arc(result.s, geometry_data.start, geometry_data.width,
                              0, 90, color, 0),
                   color)
    ELSE DoorResult(result.s, Extend(<<>>, result.r), color)

create_door(s, geometry_data, color, thickness) ==
    IF "start" \notin DOMAIN geometry_data \/ "end" \notin DOMAIN geometry_data
    THEN [s |-> s, r |-> [error |-> <<"Door requires start and end points">>]]
    ELSE DoorOpened(create_line(s, geometry_data.start, geometry_data.end, color,
                                thickness),
                    geometry_data, color)

\* the dictionary create_window returns
WindowResult(s, handles, color) ==
    [s |-> s, r |-> [success |-> TRUE, handles |-> handles, type |-> <<"Window">>,
                     color |-> color]]

\* create_window after the sill line was attempted
WindowSilled(handles, inner_result, color) ==
    WindowResult(inner_result.s, Extend(handles, inner_result.r), color)

\* the sill line of a window: the opening moved by SillOffset across itself
SillLine(start, end, length) ==
    LET dx == end[1] - start[1]
        dy == end[2] - start[2]
        perp_x == ((0 - dy) * SillOffset) \div length
        perp_y == (dx * SillOffset) \div length
    IN  [inner_start |-> <<start[1] + perp_x, start[2] + perp_y>>,
         inner_end |-> <<end[1] + perp_x, end[2] + perp_y>>]

\* create_window after the opening line was attempted
WindowOpened(result, start, end, length, color) ==
    IF length > 0
    THEN WindowSilled(Extend(<<>>, result.r),
                      create_line(result.s, SillLine(start, end, length).inner_start,
                                  SillLine(start, end, length).inner_end, color, 0),
                      color)
    ELSE WindowResult(result.s, Extend(<<>>, result.r), color)

create_window(s, geometry_data, color, thickness) ==
    IF "start" \notin DOMAIN geometry_data \/ "end" \notin DOMAIN geometry_data
    THEN [s |-> s, r |-> [error |-> <<"Window requires start and end points">>]]
    ELSE WindowOpened(create_line(s, geometry_data.start, geometry_data.end, color,
                                  thickness),
                      geometry_data.start, geometry_data.end,
                      Hypot(geometry_data.end[1] - geometry_data.start[1],
                            geometry_data.end[2] - geometry_data.start[2]),
                      color)

create_room(s, geometry_data, color, thickness) ==
    IF "corner1" \notin DOMAIN geometry_data \/ "corner2" \notin DOMAIN geometry_data
    THEN [s |-> s, r |-> [error |-> <<"Room requires corner1 and corner2 points">>]]
    ELSE create_rectangle(s, geometry_data.corner1, geometry_data.corner2, color, thickness)

\* the midpoint of two points
Midpoint(p, q) == <<(p[1] + q[1]) \div 2, (p[2] + q[2]) \div 2>>

\* the position add_structure_label computes
LabelPosition(geometry_data) ==
    IF "center" \in DOMAIN geometry_data THEN geometry_data.center
    ELSE IF "start" \in DOMAIN geometry_data /\ "end" \in DOMAIN geometry_data
    THEN Midpoint(geometry_data.start, geometry_data.end)
    ELSE IF "corner1" \in DOMAIN geometry_data /\ "corner2" \in DOMAIN geometry_data
    THEN Midpoint(geometry_data.corner1, geometry_data.corner2)
    ELSE <<0, 0>>

\* add_structure_label returning with the layer left where the text was written
LabelLeftOnAnnotation(original_layer, result) == result

\* add_structure_label after the text was attempted: the layer is put back
LabelWritten(original_layer, result) ==
    IF Truthy(original_layer)
    THEN [s |-> set_current_layer(result.s, original_layer.v).s, r |-> result.r]
    ELSE result

\* add_structure_label; c1 is the state after
\* `original_layer = str(self.doc.ActiveLayer.Name)` was attempted
LabelLayerRead(c1, geometry_data, label) ==
    IF DocOK(c1)
    THEN LabelWritten(PyStr(Dwg(c1).active),
                      create_text(set_current_layer(c1, "ANNOTATION").s,
                                  LabelPosition(geometry_data), label, LabelHeight,
                                  White))
    ELSE LabelWritten(PyNone,
                      create_text(c1, LabelPosition(geometry_data), label, LabelHeight,
                                  White))

add_structure_label(s, geometry_data, label, layer_name) ==
    LabelLayerRead(Tick(s), geometry_data, label)

\* the first entry of layer_definitions of that name, 0 when there is none
RECURSIVE DefinitionNamed(_, _)
DefinitionNamed(layer_name, i) ==
    IF i > Len(layer_definitions) THEN 0
    ELSE IF layer_definitions[i].name = layer_name THEN i
    ELSE DefinitionNamed(layer_name, i + 1)

\* the color create_structure uses: the one given, else the layer's, else "bylayer"
StructureColor(color, layer_name) ==
    IF color.t # "none" THEN color
    ELSE IF DefinitionNamed(layer_name, 1) # 0
    THEN PyStr(layer_definitions[DefinitionNamed(layer_name, 1)].color)
    ELSE PyStr(<<"b","y","l","a","y","e","r">>)

\* the constructor create_structure dispatches to; the result is marked
\* unsupported when the geometry data fits none
ShapeResult(s, structure_type, geometry_data, color, thickness) ==
    IF lower(structure_type) \in {<<"w","a","l","l">>,
                                  <<"p","a","r","t","i","t","i","o","n">>}
    THEN create_wall(s, geometry_data, color, thickness)
    ELSE IF lower(structure_type) \in {<<"d","o","o","r">>,
                                       <<"o","p","e","n","i","n","g">>}
    THEN create_door(s, geometry_data, color, thickness)
    ELSE IF lower(structure_type) \in {<<"w","i","n","d","o","w">>}
    THEN create_window(s, geometry_data, color, thickness)
    ELSE IF lower(structure_type) \in {<<"r","o","o","m">>}
    THEN create_room(s, geometry_data, color, thickness)
    ELSE IF "start" \in DOMAIN geometry_data /\ "end" \in DOMAIN geometry_data
    THEN create_line(s, geometry_data.start, geometry_data.end, color, thickness)
    ELSE IF "center" \in DOMAIN geometry_data /\ "radius" \in DOMAIN geometry_data
    THEN create_circle(s, geometry_data.center, geometry_data.radius, color, thickness)
    ELSE IF "corner1" \in DOMAIN geometry_data /\ "corner2" \in DOMAIN geometry_data
    THEN create_rectangle(s, geometry_data.corner1, geometry_data.corner2,
                          color, thickness)
    ELSE [s |-> s, r |-> [unsupported |-> TRUE]]

\* the end of create_structure: `if original_layer: self.set_current_layer(...)`
\* and the dictionary returned
StructureRestored(original_layer, s3, created_entities, structure_type, color, thickness, layer_name, label) ==
    [s |-> IF Truthy(original_layer) THEN set_current_layer(s3, original_layer.v).s
           ELSE s3,
     r |-> [success |-> TRUE, structure_type |-> structure_type,
            layer |-> layer_name, handles |-> created_entities,
            color |-> color, thickness |-> thickness, label |-> label]]

\* create_structure after the label was attempted
StructureLabelled(original_layer, handles, label_result, structure_type, color, thickness, layer_name, label) ==
    StructureRestored(original_layer, label_result.s, Extend(handles, label_result.r),
                      structure_type, color, thickness, layer_name, label)

\* create_structure after the constructor returned result; an unsupported
\* geometry returns at once, before the layer is put back
StructureShaped(original_layer, result, structure_type, geometry_data, color, thickness, layer_name, label) ==
    IF "unsupported" \in DOMAIN result.r
    THEN [s |-> result.s,
          r |-> [error |-> <<"Unsupported geometry data for structure type: ",
                             structure_type>>]]
    ELSE IF Succeeded(result.r) /\ Truthy(label)
    THEN StructureLabelled(original_layer, HandlesOf(result.r),
                           add_structure_label(result.s, geometry_data, label.v,
                                               layer_name),
                           structure_type, color, thickness, layer_name, label)
    ELSE StructureRestored(original_layer, result.s, Extend(<<>>, result.r),
                           structure_type, color, thickness, layer_name, label)

\* create_structure with the target layer switched to (s2) or not
StructureActivated(original_layer, s2, structure_type, geometry_data, color, thickness, layer_name, label) ==
    StructureShaped(original_layer,
                    ShapeResult(s2, structure_type, geometry_data, color, thickness),
                    structure_type, geometry_data, color, thickness, layer_name, label)

\* create_structure; c2 is the state after
\* `original_layer = str(self.doc.ActiveLayer.Name)` was attempted
StructureLayerRead(c2, structure_type, geometry_data, color, thickness, layer_name, label) ==
    IF DocOK(c2)
    THEN StructureActivated(PyStr(Dwg(c2).active), set_current_layer(c2, layer_name).s,
                            structure_type, geometry_data,
                            StructureColor(color, layer_name), thickness, layer_name,
                            label)
    ELSE StructureActivated(PyNone, c2, structure_type, geometry_data,
                            StructureColor(color, layer_name), thickness, layer_name,
                            label)

\* create_structure after ensure_connection returned e
StructureConnected(e, structure_type, geometry_data, color, thickness, custom_layer, label) ==
    IF ~e.v THEN [s |-> e.s, r |-> NotConnected]
    ELSE IF Truthy(custom_layer)
    THEN StructureLayerRead(
             Tick(create_or_get_layer(e.s, custom_layer.v,
                      IF TruthyColor(color) THEN color ELSE White,
                      <<"Custom layer for ", structure_type>>).s),
             structure_type, geometry_data, color, thickness, custom_layer.v, label)
    ELSE StructureLayerRead(Tick(e.s), structure_type, geometry_data, color, thickness,
                            get_layer_for_structure_type(structure_type), label)

create_structure(s, structure_type, geometry_data, color, thickness, custom_layer, label) ==
    StructureConnected(ensure_connection(s), structure_type, geometry_data, color,
                       thickness, custom_layer, label)

-----------------------------------------------------------------------------
(* Entity Query/Delete Engine *)

\* the loop `for i in range(layers.Count)` of get_drawing_info, from layer i on
RECURSIVE LayerInfoLoop(_, _, _, _)
LayerInfoLoop(s, i, n, layer_list) ==
    IF i > n THEN [s |-> s, layer_list |-> layer_list]
    ELSE LET c1 == Tick(s)       \* layer = layers.Item(i)
             c2 == Tick(c1)      \* layer_info = {name, color, frozen, locked}
         IN  IF ~DocOK(c1) THEN LayerInfoLoop(c1, i + 1, n, layer_list)
             ELSE IF ~DocOK(c2) THEN LayerInfoLoop(c2, i + 1, n, layer_list)
             ELSE LayerInfoLoop(c2, i + 1, n,
                      Append(layer_list, [name |-> Dwg(c2).layers[i].name,
                                          color |-> Dwg(c2).layers[i].color,
                                          frozen |-> FALSE, locked |-> FALSE]))

\* doc_info as get_drawing_info first fills it
DocInfoDefaults ==
    [filename |-> <<"Unknown">>, path |-> <<"Unknown">>, entity_count |-> 0,
     saved |-> FALSE, current_layer |-> <<"Unknown">>, total_layers |-> 0,
     available_layers |-> <<>>]

\* get_drawing_info after the loop over the layers
InfoLayersListed(loop, doc_info) ==
    [s |-> loop.s, r |-> [doc_info EXCEPT !.available_layers = loop.layer_list]]

\* get_drawing_info; c9 is the state after range(layers.Count) was attempted
InfoLayersRanged(c9, doc_info) ==
    IF DocOK(c9)
    THEN InfoLayersListed(LayerInfoLoop(c9, 1, Len(Dwg(c9).layers), <<>>), doc_info)
    ELSE [s |-> c9, r |-> doc_info]

\* get_drawing_info; c8 is the state after int(layers.Count) was attempted
InfoLayersCounted(c8, doc_info) ==
    IF DocOK(c8)
    THEN InfoLayersRanged(Tick(c8),
                          [doc_info EXCEPT !.total_layers = Len(Dwg(c8).layers)])
    ELSE [s |-> c8, r |-> doc_info]

\* get_drawing_info; c7 is the state after `layers = self.doc.Layers` was attempted
InfoLayersOpened(c7, doc_info) ==
    IF DocOK(c7) THEN InfoLayersCounted(Tick(c7), doc_info)
    ELSE [s |-> c7, r |-> doc_info]

\* get_drawing_info; c6 is the state after int(model_space.Count) was attempted
InfoCounted(c6, doc_info) ==
    InfoLayersOpened(Tick(c6),
                     IF DocOK(c6) THEN [doc_info EXCEPT !.entity_count = Len(Dwg(c6).ents)]
                     ELSE doc_info)

\* get_drawing_info; c5 is the state after `model_space = self.doc.ModelSpace`
InfoSpaceOpened(c5, doc_info) ==
    IF DocOK(c5) THEN InfoCounted(Tick(c5), doc_info)
    ELSE InfoLayersOpened(Tick(c5), doc_info)

\* get_drawing_info; c4 is the state after str(self.doc.ActiveLayer.Name)
InfoLayerRead(c4, doc_info) ==
    InfoSpaceOpened(Tick(c4),
                    IF DocOK(c4) THEN [doc_info EXCEPT !.current_layer = <<Dwg(c4).active>>]
                    ELSE doc_info)

\* get_drawing_info; c3 is the state after bool(self.doc.Saved): a drawing of
\* the model has never been saved
InfoSavedRead(c3, doc_info) == InfoLayerRead(Tick(c3), doc_info)

\* get_drawing_info; c2 is the state after self.doc.Path was read: a drawing of
\* the model has no file, so the path is "Not saved"
InfoPathRead(c2, doc_info) ==
    InfoSavedRead(Tick(c2),
                  IF DocOK(c2) THEN [doc_info EXCEPT !.path = <<"Not saved">>]
                  ELSE doc_info)

\* get_drawing_info; c1 is the state after str(self.doc.Name) was attempted
InfoNameRead(c1, doc_info) ==
    InfoPathRead(Tick(c1),
                 IF DocOK(c1) THEN [doc_info EXCEPT !.filename = <<"Drawing", c1.doc>>]
                 ELSE doc_info)

\* get_drawing_info after ensure_connection returned e
InfoConnected(e) ==
    IF ~e.v THEN [s |-> e.s, r |-> NotConnected]
    ELSE InfoNameRead(Tick(e.s), DocInfoDefaults)

get_drawing_info(s) == InfoConnected(ensure_connection(s))

\* batch_size of get_entities
BatchSize == 100
\* get_entities pauses whenever the number processed is a multiple of this
PauseEvery == 500

\* the reads of the type-specific geometry of entity_info, inside one try
GeometryInfo(s, entity) ==
    LET c1 == Tick(s)        \* entity.ObjectName == "AcDbLine"
        c2 == Tick(c1)       \* start_point = entity.StartPoint, or the next ObjectName
        c3 == Tick(c2)       \* end_point = entity.EndPoint, or center, or the next ObjectName
        c4 == Tick(c3)       \* radius, or insertion_point
        c5 == Tick(c4)       \* text_string
        c6 == Tick(c5)       \* height
        g == entity.geom
    IN  IF ~DocOK(c1) THEN [s |-> c1, info |-> <<>>]
        ELSE IF entity.type = "AcDbLine"
        THEN IF ~DocOK(c2) THEN [s |-> c2, info |-> <<>>]
             ELSE IF ~DocOK(c3) THEN [s |-> c3, info |-> <<>>]
             ELSE [s |-> c3, info |-> [start_point |-> g.start, end_point |-> g.end]]
        ELSE IF ~DocOK(c2) THEN [s |-> c2, info |-> <<>>]
        ELSE IF entity.type = "AcDbCircle"
        THEN IF ~DocOK(c3) THEN [s |-> c3, info |-> <<>>]
             ELSE IF ~DocOK(c4) THEN [s |-> c4, info |-> [center |-> g.center]]
             ELSE [s |-> c4, info |-> [center |-> g.center, radius |-> g.radius]]
        ELSE IF ~DocOK(c3) THEN [s |-> c3, info |-> <<>>]
        ELSE IF entity.type = "AcDbText"
        THEN IF ~DocOK(c4) THEN [s |-> c4, info |-> <<>>]
             ELSE IF ~DocOK(c5) THEN [s |-> c5, info |-> [position |-> g.position]]
             ELSE IF ~DocOK(c6)
             THEN [s |-> c6, info |-> [position |-> g.position, text_string |-> g.text]]
             ELSE [s |-> c6, info |-> [position |-> g.position, text_string |-> g.text,
                                       height |-> g.height]]
        ELSE [s |-> c3, info |-> <<>>]

\* entity_info once the optional reads are over
EntityDescribed(base, geo) == [s |-> geo.s, got |-> TRUE, info |-> base @@ geo.info]

\* entity_info with its five first keys set; c3 is the state after
\* `entity_info["visible"] = bool(entity.Visible)` was attempted
EntityVisibleRead(c3, entity, base) ==
    IF DocOK(c3) THEN EntityDescribed(base @@ [visible |-> TRUE], GeometryInfo(c3, entity))
    ELSE EntityDescribed(base, GeometryInfo(c3, entity))

\* the body of `for i in range(processed, batch_end)` for the entity at index i
\* (0-based): got is whether a record was appended
EntityInfo(s, i) ==
    LET c1 == Tick(s)        \* entity = model_space.Item(i)
        c2 == Tick(c1)       \* entity_info = {index, type, layer, handle, color}
    IN  IF ~(DocOK(c1) /\ i + 1 <= Len(Dwg(c1).ents)) THEN [s |-> c1, got |-> FALSE]
        ELSE IF ~DocOK(c2) THEN [s |-> c2, got |-> FALSE]
        ELSE EntityVisibleRead(Tick(c2), Dwg(c2).ents[i + 1],
                 [index |-> i, type |-> Dwg(c2).ents[i + 1].type,
                  layer |-> Dwg(c2).ents[i + 1].layer,
                  handle |-> Dwg(c2).ents[i + 1].handle,
                  color |-> Dwg(c2).ents[i + 1].color])

\* the end of the body of `for i in range(processed, batch_end)`: the record of
\* the entity, if one was made, is appended
EntityAppended(one, entities) ==
    IF one.got THEN [s |-> one.s, entities |-> Append(entities, one.info)]
    ELSE [s |-> one.s, entities |-> entities]

\* `for i in range(processed, batch_end)`, from index i on: the passes for the
\* first half of the indices, then the passes for the rest
RECURSIVE ScanBatch(_, _, _, _)

\* the passes from index i on, after those before i ended as first (which holds
\* at most one record per index passed)
ScanRest(first, i, batch_end) ==
    IF Len(first.entities) <= i THEN ScanBatch(first.s, i, batch_end, first.entities)
    ELSE first

ScanBatch(s, i, batch_end, entities) ==
    IF i >= batch_end THEN [s |-> s, entities |-> entities]
    ELSE IF i + 1 = batch_end THEN EntityAppended(EntityInfo(s, i), entities)
    ELSE ScanRest(ScanBatch(s, i, (i + batch_end) \div 2, entities),
                  (i + batch_end) \div 2, batch_end)

\* `while processed < count`
RECURSIVE ScanLoop(_, _, _, _)

\* a scan that pauses at every multiple of 500, also when nothing remains
ScanPausedAtEnd(batch, batch_end, count) ==
    IF Len(batch.entities) <= batch_end /\ batch_end % PauseEvery = 0
    THEN ScanLoop([batch.s EXCEPT !.pauses = @ + 1], batch_end, count, batch.entities)
    ELSE ScanLoop(batch.s, batch_end, count, batch.entities)

\* the end of one pass of `while processed < count`, after its batch (which
\* left at most one record per index processed)
ScanPaused(batch, batch_end, count) ==
    IF Len(batch.entities) <= batch_end /\ batch_end % PauseEvery = 0 /\ batch_end < count
    THEN ScanLoop([batch.s EXCEPT !.pauses = @ + 1], batch_end, count, batch.entities)
    ELSE ScanLoop(batch.s, batch_end, count, batch.entities)

ScanLoop(s, processed, count, entities) ==
    IF ~(processed < count) THEN [s |-> s, entities |-> entities]
    ELSE ScanPaused(ScanBatch(s, processed, Min(processed + BatchSize, count), entities),
                    Min(processed + BatchSize, count), count)

\* the grouping of the records by their layer, each group in scan order
EntitiesByLayer(entities) ==
    [layer_name \in {entities[i].layer : i \in 1..Len(entities)} |->
        SelectSeq(entities, LAMBDA entity : entity.layer = layer_name)]

\* a result whose returned_count is the drawing's count
EntitiesResultCountingAll(entities, entities_by_layer, total_count) ==
    [entities |-> entities,
     entities_by_layer |-> entities_by_layer,
     total_count |-> total_count,
     returned_count |-> total_count,
     layer_summary |-> [layer_name \in DOMAIN entities_by_layer |->
                           Len(entities_by_layer[layer_name])]]

\* the dictionary get_entities returns
EntitiesResult(entities, entities_by_layer, total_count) ==
    [entities |-> entities,
     entities_by_layer |-> entities_by_layer,
     total_count |-> total_count,
     returned_count |-> Len(entities),
     layer_summary |-> [layer_name \in DOMAIN entities_by_layer |->
                           Len(entities_by_layer[layer_name])]]

\* get_entities after the scan
EntitiesScanned(scan, total_count) ==
    [s |-> scan.s,
     r |-> EntitiesResult(scan.entities, EntitiesByLayer(scan.entities), total_count)]

\* get_entities with total_count read or defaulted, in state c2
EntitiesCounted(c2, total_count, max_entities) ==
    EntitiesScanned(ScanLoop(c2, 0,
                             IF max_entities.t = "none" THEN total_count
                             ELSE Min(total_count, max_entities.v),
                             <<>>),
                    total_count)

\* get_entities after ensure_connection returned e
EntitiesConnected(e, max_entities) ==
    LET c1 == Tick(e.s)      \* model_space = self.doc.ModelSpace
        c2 == Tick(c1)       \* total_count = int(model_space.Count)
    IN  IF ~e.v THEN [s |-> e.s, r |-> NotConnected]
        ELSE IF ~DocOK(c1)
        THEN [s |-> c1, r |-> [error |-> <<"Failed to get entities: ", "com_error">>]]
        ELSE IF DocOK(c2) THEN EntitiesCounted(c2, Len(Dwg(c2).ents), max_entities)
        ELSE EntitiesCounted(c2, 0, max_entities)

get_entities(s, max_entities) == EntitiesConnected(ensure_connection(s), max_entities)

\* the loop `for i in range(model_space.Count)` of delete_entity_by_handle, from
\* index i (1-based here) on: the index of the entity found, or 0
RECURSIVE FindByHandle(_, _, _, _)
FindByHandle(s, i, n, handle) ==
    IF i > n THEN [s |-> s, found |-> 0]
    ELSE LET c1 == Tick(s)       \* obj = model_space.Item(i)
             c2 == Tick(c1)      \* str(obj.Handle) == handle
         IN  IF ~DocOK(c1) THEN FindByHandle(c1, i + 1, n, handle)
             ELSE IF ~DocOK(c2) THEN FindByHandle(c2, i + 1, n, handle)
             ELSE IF Dwg(c2).ents[i].handle = handle THEN [s |-> c2, found |-> i]
             ELSE FindByHandle(c2, i + 1, n, handle)

\* the sequence without its i-th element
RemoveAt(seq, i) == SubSeq(seq, 1, i - 1) \o SubSeq(seq, i + 1, Len(seq))

\* delete_operation under safe_operation; d1 is the state after entity.Delete()
\* was attempted, and Regen follows a Delete that was served
EntityDeleted(d1, found) ==
    IF ~DocOK(d1) THEN Sleep(d1)
    ELSE Sleep(Tick(SetDwg(d1, [Dwg(d1) EXCEPT !.ents = RemoveAt(@, found)])))

\* delete_entity_by_handle after the search
EntitySought(find, handle) ==
    IF find.found = 0
    THEN [s |-> find.s, r |-> [error |-> <<"Entity with handle ", handle, " not found">>]]
    ELSE [s |-> EntityDeleted(Tick(find.s), find.found),
          r |-> [success |-> TRUE, handle |-> handle]]

\* delete_entity_by_handle after ensure_connection returned e
DeleteConnected(e, handle) ==
    LET c1 == Tick(e.s)      \* model_space = self.doc.ModelSpace
        c2 == Tick(c1)       \* range(model_space.Count)
    IN  IF ~e.v THEN [s |-> e.s, r |-> NotConnected]
        ELSE IF ~DocOK(c1)
        THEN [s |-> c1, r |-> [error |-> <<"Failed to delete entity: ", "com_error">>]]
        ELSE IF ~DocOK(c2)
        THEN [s |-> c2, r |-> [error |-> <<"Failed to delete entity: ", "com_error">>]]
        ELSE EntitySought(FindByHandle(c2, 1, Len(Dwg(c2).ents), handle), handle)

delete_entity_by_handle(s, handle) == DeleteConnected(ensure_connection(s), handle)

-----------------------------------------------------------------------------
(* Tool surface *)

\* the names handle_list_tools returns, in the order listed
ListedTools ==
    <<"get_drawing_info", "get_entities", "create_structure", "create_or_get_layer",
      "set_current_layer", "create_line", "create_circle", "create_rectangle",
      "create_text", "create_arc", "delete_entities_by_color",
      "delete_entity_by_handle", "delete_entities_by_handles",
      "delete_entities_by_type", "delete_entities_by_layer",
      "delete_entities_by_color", "delete_entities_by_type_and_color",
      "delete_last_entities", "delete_all_entities", "undo_last_operation",
      "change_entity_color", "zoom_extents">>

ListedToolNames == {ListedTools[i] : i \in 1..Len(ListedTools)}

\* the methods class AutoCADCOMServer defines that handle_call_tool calls
Methods ==
    {"get_drawing_info", "get_entities", "create_structure", "create_or_get_layer",
     "set_current_layer", "create_line", "create_circle", "create_rectangle",
     "create_text", "create_arc", "delete_entity_by_handle", "zoom_extents"}

\* the "required" list of each listed tool's inputSchema
Required ==
    [name \in ListedToolNames |->
        CASE name = "create_structure" -> {"structure_type", "geometry_data"}
          [] name \in {"create_or_get_layer", "set_current_layer",
                       "delete_entities_by_layer"} -> {"layer_name"}
          [] name = "create_line" -> {"start", "end"}
          [] name = "create_circle" -> {"center", "radius"}
          [] name = "create_rectangle" -> {"corner1", "corner2"}
          [] name = "create_text" -> {"position", "text"}
          [] name = "create_arc" -> {"center", "radius", "start_angle", "end_angle"}
          [] name = "delete_entities_by_color" -> {"color"}
          [] name = "delete_entity_by_handle" -> {"handle"}
          [] name = "delete_entities_by_handles" -> {"handles"}
          [] name = "delete_entities_by_type" -> {"entity_type"}
          [] name = "delete_entities_by_type_and_color" -> {"entity_type", "color"}
          [] name = "delete_all_entities" -> {"confirm"}
          [] name = "change_entity_color" -> {"handle", "color"}
          [] OTHER -> {}]

\* the text height used when none is given: 1.0
DefaultTextHeight == 100

\* arguments.get(key, default)
Get(arguments, key, default) ==
    IF key \in DOMAIN arguments THEN arguments[key] ELSE default

Has(arguments, keys) == keys \subseteq DOMAIN arguments

Raise(s, exc) == [s |-> s, r |-> <<>>, exc |-> exc]
Return(call) == [s |-> call.s, r |-> call.r, exc |-> "none"]

\* `result = {"success": success, "layer_name": arguments["layer_name"]}`
LayerToolResult(success, layer_name) ==
    [s |-> success.s, exc |-> "none",
     r |-> [success |-> success.v, layer_name |-> layer_name]]

\* the names the if/elif chain of handle_call_tool tests for; the branch of
\* name calls self.<name>
BranchNames ==
    {"get_drawing_info", "get_entities", "create_structure", "create_or_get_layer",
     "set_current_layer", "create_line", "create_circle", "create_rectangle",
     "create_text", "create_arc", "delete_entity_by_handle",
     "delete_entities_by_handles", "delete_entities_by_type",
     "delete_entities_by_layer", "delete_entities_by_color",
     "delete_entities_by_type_and_color", "delete_last_entities",
     "delete_all_entities", "undo_last_operation", "change_entity_color",
     "zoom_extents"}

\* the if/elif chain inside the try block of handle_call_tool: exc is the
\* exception that leaves it ("none" when it produces result r)
Dispatch(s, name, arguments) ==
    \* self.<name> is looked up before the arguments of the call are evaluated
    IF name \in BranchNames /\ name \notin Methods THEN Raise(s, "AttributeError")
    ELSE IF name = "get_drawing_info" THEN Return(get_drawing_info(s))
    ELSE IF name = "get_entities"
    THEN Return(get_entities(s, Get(arguments, "max_entities", PyNone)))
    ELSE IF name = "create_structure"
    THEN IF ~Has(arguments, {"structure_type", "geometry_data"})
         THEN Raise(s, "KeyError")
         ELSE Return(create_structure(s, arguments.structure_type,
                  arguments.geometry_data, Get(arguments, "color", PyNone),
                  Get(arguments, "thickness", 0), Get(arguments, "custom_layer", PyNone),
                  Get(arguments, "label", PyNone)))
    ELSE IF name = "create_or_get_layer"
    THEN IF ~Has(arguments, {"layer_name"}) THEN Raise(s, "KeyError")
         ELSE LayerToolResult(create_or_get_layer(s, arguments.layer_name,
                                  Get(arguments, "color", White),
                                  Get(arguments, "description", "")),
                              arguments.layer_name)
    ELSE IF name = "set_current_layer"
    THEN IF ~Has(arguments, {"layer_name"}) THEN Raise(s, "KeyError")
         ELSE LayerToolResult(set_current_layer(s, arguments.layer_name),
                              arguments.layer_name)
    ELSE IF name = "create_line"
    THEN IF ~Has(arguments, {"start", "end"}) THEN Raise(s, "KeyError")
         ELSE Return(create_line(s, arguments.start, arguments.end,
                  Get(arguments, "color", White), Get(arguments, "thickness", 0)))
    ELSE IF name = "create_circle"
    THEN IF ~Has(arguments, {"center", "radius"}) THEN Raise(s, "KeyError")
         ELSE Return(create_circle(s, arguments.center, arguments.radius,
                  Get(arguments, "color", White), Get(arguments, "thickness", 0)))
    ELSE IF name = "create_rectangle"
    THEN IF ~Has(arguments, {"corner1", "corner2"}) THEN Raise(s, "KeyError")
         ELSE Return(create_rectangle(s, arguments.corner1, arguments.corner2,
                  Get(arguments, "color", White), Get(arguments, "thickness", 0)))
    ELSE IF name = "create_text"
    THEN IF ~Has(arguments, {"position", "text"}) THEN Raise(s, "KeyError")
         ELSE Return(create_text(s, arguments.position, arguments.text,
                  Get(arguments, "height", DefaultTextHeight),
                  Get(arguments, "color", White)))
    ELSE IF name = "create_arc"
    THEN IF ~Has(arguments, {"center", "radius", "start_angle", "end_angle"})
         THEN Raise(s, "KeyError")
         ELSE Return(create_arc(s, arguments.center, arguments.radius,
                  arguments.start_angle, arguments.end_angle,
                  Get(arguments, "color", White), Get(arguments, "thickness", 0)))
    ELSE IF name = "delete_entity_by_handle"
    THEN IF ~Has(arguments, {"handle"}) THEN Raise(s, "KeyError")
         ELSE Return(delete_entity_by_handle(s, arguments.handle))
    ELSE IF name = "zoom_extents" THEN Return(zoom_extents(s))
    ELSE [s |-> s, exc |-> "none", r |-> [error |-> <<"Unknown tool: ", name>>]]

\* the except clause of handle_call_tool, applied to what its try block did
Caught(try, name) ==
    IF try.exc = "none" THEN try
    ELSE [s |-> try.s, exc |-> "none",
          r |-> [error |-> <<"Error calling tool ", name, ": ", try.exc>>]]

\* handle_call_tool without its except clause
HandleCallToolNoExcept(s, name, arguments) == Dispatch(s, name, arguments)

\* handle_call_tool: the result it returns as JSON text
handle_call_tool(s, name, arguments) == Caught(Dispatch(s, name, arguments), name)

-----------------------------------------------------------------------------
(* Requests *)

\* the sets of external calls made to fail in one invocation
Faults == {{}} \cup {{i} : i \in 1..MaxCall}

NoArgs == <<>>

Chars_wall == <<"w","a","l","l">>
Chars_door == <<"d","o","o","r">>
Chars_window == <<"w","i","n","d","o","w">>
Chars_room == <<"r","o","o","m">>
Chars_furniture == <<"f","u","r","n","i","t","u","r","e">>

\* geometry descriptors
GLine == [start |-> <<0, 0>>, end |-> <<1000, 0>>]
GDoor == [start |-> <<0, 0>>, end |-> <<0, 100>>, width |-> 100]
GCircle == [center |-> <<200, 200>>, radius |-> 100]
GRect == [corner1 |-> <<0, 0>>, corner2 |-> <<400, 200>>]
GNone == <<>>

StructureArgs ==
    {[structure_type |-> Chars_wall, geometry_data |-> GLine],
     [structure_type |-> Chars_wall, geometry_data |-> GNone],
     [structure_type |-> Chars_wall, geometry_data |-> GLine, thickness |-> -10],
     [structure_type |-> Chars_furniture, geometry_data |-> GNone],
     [structure_type |-> Chars_furniture, geometry_data |-> GCircle,
      label |-> PyStr("Sofa")],
     [structure_type |-> Chars_room, geometry_data |-> GRect],
     [structure_type |-> Chars_room, geometry_data |-> GNone],
     [structure_type |-> Chars_door, geometry_data |-> GDoor],
     [structure_type |-> Chars_window, geometry_data |-> GLine],
     [structure_type |-> Chars_wall, geometry_data |-> GLine,
      color |-> PyStr(<<"r","e","d">>), thickness |-> 20,
      custom_layer |-> PyStr("CUSTOM")],
     [geometry_data |-> GLine]}

LayerArgs ==
    {[layer_name |-> "CUSTOM", color |-> PyStr(<<"b","l","u","e">>)],
     [layer_name |-> "WALLS", color |-> PyStr(<<"r","e","d">>),
      description |-> "again"],
     [color |-> PyStr(<<"r","e","d">>)]}

CurrentLayerArgs ==
    {[layer_name |-> "WALLS"], [layer_name |-> "0"], [layer_name |-> "NOPE"]}

LineArgs ==
    {[start |-> <<0, 0>>, end |-> <<1000, 0>>],
     [start |-> <<0, 0>>, end |-> <<300, 400>>, thickness |-> 10,
      color |-> PyStr(<<"R","E","D">>)],
     [start |-> <<200, 200>>, end |-> <<200, 200>>, thickness |-> 10],
     [start |-> <<0, 0>>, end |-> <<1000, 0>>, color |-> PyStr(<<"5">>)],
     [start |-> <<0, 0>>, end |-> <<1000, 0>>, color |-> PyInt(5)],
     [start |-> <<0, 0>>, end |-> <<1000, 0>>, color |-> PyStr(<<"t","e","a","l">>)],
     [start |-> <<0, 0>>]}

CircleArgs ==
    {[center |-> <<0, 0>>, radius |-> 100],
     [center |-> <<0, 0>>, radius |-> 10, thickness |-> 40],
     [center |-> <<0, 0>>, radius |-> 100, thickness |-> 20],
     [center |-> <<0, 0>>, radius |-> 0, thickness |-> 40],
     [center |-> <<0, 0>>, radius |-> 0]}

RectangleArgs ==
    {[corner1 |-> <<0, 0>>, corner2 |-> <<400, 200>>],
     [corner1 |-> <<300, 300>>, corner2 |-> <<100, 0>>],
     [corner1 |-> <<0, 0>>, corner2 |-> <<400, 200>>, thickness |-> 10]}

TextArgs == {[position |-> <<0, 0>>, text |-> "TEST"]}

ArcArgs ==
    {[center |-> <<0, 0>>, radius |-> 100, start_angle |-> 0, end_angle |-> 90],
     [center |-> <<0, 0>>, radius |-> 100, start_angle |-> 0, end_angle |-> 90,
      thickness |-> 20]}

HandleArgs == {[handle |-> <<"H", 1>>], [handle |-> <<"H", 0>>]}

EntitiesArgs == {NoArgs, [max_entities |-> PyInt(1)]}

NoReq == [name |-> "none"]
NoRes == [exc |-> "none"]
NoPre == [none |-> TRUE]
NoObs == [k |-> 0, connects |-> 0, sleeps |-> 0, pauses |-> 0]

-----------------------------------------------------------------------------
(* Actions *)

\* what an invocation that ended as h leaves behind
Handled(h, fault) ==
    /\ fault \subseteq 1..h.s.k     \* every injected failure hits a call made
    /\ srv' = ServerOf(h.s)
    /\ world' = WorldOf(h.s)
    /\ obs' = ObsOf(h.s)
    /\ res' = [r |-> h.r, exc |-> h.exc]

\* one invocation of handle_call_tool, from the request to the returned result
Call(name, arguments, fault) ==
    /\ pc = "idle"
    /\ served < MaxRequests
    /\ served' = served + 1
    /\ Handled(handle_call_tool(State(srv, world, fault), name, arguments), fault)
    /\ req' = [name |-> name, args |-> arguments, fault |-> fault]
    /\ pre' = [srv |-> srv, world |-> world]
    /\ pc' = "reply"
    /\ UNCHANGED <<inp, out>>

\* the result has been sent; the server waits for the next request
Reply ==
    /\ pc = "reply"
    /\ pc' = "idle"
    /\ req' = NoReq
    /\ res' = NoRes
    /\ pre' = NoPre
    /\ obs' = NoObs
    /\ UNCHANGED <<srv, world, served, inp, out>>

\* what main's call of connect_to_autocad leaves behind when it ended as c
Started(c, fault) ==
    /\ fault \subseteq 1..c.s.k
    /\ srv' = ServerOf(c.s)
    /\ world' = WorldOf(c.s)

\* main(): connect_to_autocad() before the server starts serving
Startup ==
    /\ pc = "start"
    /\ \E fault \in Faults : Started(connect_to_autocad(State(srv, world, fault)), fault)
    /\ pc' = "idle"
    /\ UNCHANGED <<req, res, pre, obs, served, inp, out>>

\* the user starts the application, which opens a drawing
AppStart ==
    /\ pc \in {"start", "idle"}
    /\ world.acad = "stopped"
    /\ Len(world.docs) < MaxDocs
    /\ world' = [acad |-> "running", docs |-> Append(world.docs, NewDrawing),
                 activeDoc |-> Len(world.docs) + 1]
    /\ UNCHANGED <<srv, pc, req, res, pre, obs, served, inp, out>>

\* the application exits or crashes: its drawings close
AppExit ==
    /\ pc \in {"start", "idle"}
    /\ world.acad = "running"
    /\ world' = [acad |-> "stopped",
                 docs |-> [i \in 1..Len(world.docs) |-> ClosedDrawing],
                 activeDoc |-> 0]
    /\ UNCHANGED <<srv, pc, req, res, pre, obs, served, inp, out>>

GetDrawingInfo == \E f \in Faults : Call("get_drawing_info", NoArgs, f)
GetEntities == \E a \in EntitiesArgs, f \in Faults : Call("get_entities", a, f)
CreateStructure ==
    \E a \in StructureArgs, f \in Faults : Call("create_structure", a, f)
CreateOrGetLayer == \E a \in LayerArgs, f \in Faults : Call("create_or_get_layer", a, f)
SetCurrentLayer ==
    \E a \in CurrentLayerArgs, f \in Faults : Call("set_current_layer", a, f)
CreateLine == \E a \in LineArgs, f \in Faults : Call("create_line", a, f)
CreateCircle == \E a \in CircleArgs, f \in Faults : Call("create_circle", a, f)
CreateRectangle ==
    \E a \in RectangleArgs, f \in Faults : Call("create_rectangle", a, f)
CreateText == \E a \in TextArgs, f \in Faults : Call("create_text", a, f)
CreateArc == \E a \in ArcArgs, f \in Faults : Call("create_arc", a, f)
DeleteEntityByHandle ==
    \E a \in HandleArgs, f \in Faults : Call("delete_entity_by_handle", a, f)
ZoomExtents == \E f \in Faults : Call("zoom_extents", NoArgs, f)
DeleteEntitiesByHandles ==
    Call("delete_entities_by_handles", [handles |-> << <<"H", 1>> >>], {})
DeleteEntitiesByType ==
    Call("delete_entities_by_type", [entity_type |-> "AcDbText"], {})
DeleteEntitiesByLayer == Call("delete_entities_by_layer", [layer_name |-> "WALLS"], {})
DeleteEntitiesByColor ==
    Call("delete_entities_by_color", [color |-> PyStr(<<"r","e","d">>)], {})
DeleteEntitiesByTypeAndColor ==
    Call("delete_entities_by_type_and_color",
         [entity_type |-> "AcDbText", color |-> PyStr(<<"r","e","d">>)], {})
DeleteLastEntities == Call("delete_last_entities", [count |-> 1], {})
DeleteAllEntities ==
    \E a \in {NoArgs, [confirm |-> FALSE], [confirm |-> TRUE]} :
        Call("delete_all_entities", a, {})
UndoLastOperation == Call("undo_last_operation", NoArgs, {})
ChangeEntityColor ==
    Call("change_entity_color",
         [handle |-> <<"H", 1>>, color |-> PyStr(<<"r","e","d">>)], {})
UnknownTool == Call("frobnicate", NoArgs, {})

\* a drawing the user has already drawn a line in
UsedDrawing == AddEntity(NewDrawing, "AcDbLine", LineGeom(<<0, 0>>, <<1000, 0>>))

InitialWorlds ==
    {[acad |-> "running", docs |-> <<NewDrawing>>, activeDoc |-> 1],
     [acad |-> "running", docs |-> <<UsedDrawing>>, activeDoc |-> 1],
     [acad |-> "stopped", docs |-> <<>>, activeDoc |-> 0],
     [acad |-> "absent", docs |-> <<>>, activeDoc |-> 0]}

Init ==
    /\ srv = [acad_app |-> 0, doc |-> 0, connected |-> FALSE]
    /\ world \in InitialWorlds
    /\ pc = "start"
    /\ req = NoReq
    /\ res = NoRes
    /\ pre = NoPre
    /\ obs = NoObs
    /\ served = 0
    /\ inp = <<>>
    /\ out = <<>>

Next ==
    \/ Startup
    \/ Reply
    \/ AppStart
    \/ AppExit
    \/ GetDrawingInfo
    \/ GetEntities
    \/ CreateStructure
    \/ CreateOrGetLayer
    \/ SetCurrentLayer
    \/ CreateLine
    \/ CreateCircle
    \/ CreateRectangle
    \/ CreateText
    \/ CreateArc
    \/ DeleteEntityByHandle
    \/ ZoomExtents
    \/ DeleteEntitiesByHandles
    \/ DeleteEntitiesByType
    \/ DeleteEntitiesByLayer
    \/ DeleteEntitiesByColor
    \/ DeleteEntitiesByTypeAndColor
    \/ DeleteLastEntities
    \/ DeleteAllEntities
    \/ UndoLastOperation
    \/ ChangeEntityColor
    \/ UnknownTool

Spec == Init /\ [][Next]_vars

-----------------------------------------------------------------------------
(* The Layer Classifier and the Color Resolver on their own *)

\* words joined into one input of the classifier
MaxWords == 2

UpperChar(c) ==
    IF \E i \in 1..Len(LowerCase) : LowerCase[i] = c
    THEN UpperCase[CHOOSE i \in 1..Len(LowerCase) : LowerCase[i] = c]
    ELSE c

\* str.upper() and str.capitalize() on a lower-case string
upper(str) == [i \in 1..Len(str) |-> UpperChar(str[i])]
capitalize(str) == [i \in 1..Len(str) |-> IF i = 1 THEN UpperChar(str[i]) ELSE str[i]]

Keywords == {type_mapping[i][1] : i \in 1..Len(type_mapping)}

\* every keyword, and three words that hold none
Words ==
    Keywords \cup {<<"g","a","r","a","g","e">>, <<"k","i","t","c","h","e","n">>,
                   <<"s","o","f","a">>}

\* the words joined with each other
JoinedWords ==
    {<<"w","a","l","l">>, <<"d","o","o","r">>, <<"w","i","n","d","o","w">>,
     <<"c","h","a","i","r">>, <<"l","i","g","h","t">>, <<"t","r","e","e">>,
     <<"g","a","r","a","g","e">>, <<"k","i","t","c","h","e","n">>}

\* "_".join(ws)
RECURSIVE Join(_)
Join(ws) ==
    IF Len(ws) = 1 THEN ws[1] ELSE ws[1] \o <<"_">> \o Join(Tail(ws))

Phrases ==
    Words \cup {Join(ws) : ws \in UNION {[1..n -> JoinedWords] : n \in 2..MaxWords}}

ClassifierInputs ==
    Phrases \cup {upper(p) : p \in Phrases} \cup {capitalize(p) : p \in Phrases}

ColorNames ==
    DOMAIN color_map \cup {<<"t","e","a","l">>, <<"5">>, <<"2","5","6">>, <<>>,
                           <<"r","e","d","d">>, <<"r","e">>, <<" ","r","e","d">>}

ColorInputs ==
    {PyStr(n) : n \in ColorNames}
        \cup {PyStr(upper(n)) : n \in ColorNames}
        \cup {PyStr(capitalize(n)) : n \in ColorNames}
        \cup {PyInt(n) : n \in ValidACI \cup {0 - 1, 257, 1000}}

\* the server plays no part
Apart ==
    /\ srv = [acad_app |-> 0, doc |-> 0, connected |-> FALSE]
    /\ world = [acad |-> "absent", docs |-> <<>>, activeDoc |-> 0]
    /\ req = NoReq
    /\ res = NoRes
    /\ pre = NoPre
    /\ obs = NoObs
    /\ served = 0

InitClassify ==
    /\ Apart
    /\ pc = "input"
    /\ inp \in ClassifierInputs
    /\ out = ""

Classify ==
    /\ pc = "input"
    /\ out' = get_layer_for_structure_type(inp)
    /\ pc' = "output"
    /\ UNCHANGED <<srv, world, req, res, pre, obs, served, inp>>

SpecClassify == InitClassify /\ [][Classify]_vars

InitColor ==
    /\ Apart
    /\ pc = "input"
    /\ inp \in ColorInputs
    /\ out = [exc |-> "none", v |-> 0]

ResolveColor ==
    /\ pc = "input"
    /\ out' = get_color_index(inp)
    /\ pc' = "output"
    /\ UNCHANGED <<srv, world, req, res, pre, obs, served, inp>>

SpecColor == InitColor /\ [][ResolveColor]_vars

-----------------------------------------------------------------------------
(* The event loop: asyncio.run(main()) runs the server's invocations as       *)
(* coroutines on one thread; the loop can take up another coroutine only     *)
(* while the running one is suspended at an await                            *)

\* invocations accepted in one run of the loop
MaxTasks == 2

\* handle_call_tool is an `async def` whose body holds no await: its steps are
\* external calls ("call") and the settle delays of safe_operation ("sleep").
\* The steps of get_drawing_info, of create_line and of create_circle with a
\* thickness
Programs ==
    {<<"call">>,
     <<"call", "sleep">>,
     <<"call", "sleep", "call", "sleep", "call", "sleep">>}

\* an await of asyncio.sleep in place of time.sleep
YieldsAtSleep(step) == step = "sleep"

\* whether a step hands control back to the event loop: an external call is
\* a synchronous COM call, and the settle delay is time.sleep(delay), which
\* blocks the thread
Yields(step) == FALSE

InitLoop ==
    /\ Apart
    /\ pc = "loop"
    /\ inp = <<>>
    /\ out = <<>>

\* a request arrives and its invocation is scheduled on the loop
Accepted ==
    /\ served < MaxTasks
    /\ \E p \in Programs : inp' = Append(inp, [id |-> served + 1, left |-> p])
    /\ served' = served + 1
    /\ UNCHANGED <<srv, world, pc, req, res, pre, obs, out>>

\* the loop, with no coroutine running, takes up a scheduled invocation
Resumed ==
    /\ pc = "loop"
    /\ \E i \in 1..Len(inp) :
           /\ req' = inp[i]
           /\ inp' = RemoveAt(inp, i)
    /\ pc' = "task"
    /\ UNCHANGED <<srv, world, res, pre, obs, served, out>>

\* the running invocation executes its next step; a step that yields leaves
\* the invocation suspended and the loop free
Stepped ==
    /\ pc = "task"
    /\ req.left # <<>>
    /\ out' = Append(out, [id |-> req.id, step |-> Head(req.left)])
    /\ IF Yields(Head(req.left))
       THEN /\ inp' = Append(inp, [req EXCEPT !.left = Tail(@)])
            /\ req' = NoReq
            /\ pc' = "loop"
       ELSE /\ req' = [req EXCEPT !.left = Tail(@)]
            /\ UNCHANGED <<inp, pc>>
    /\ UNCHANGED <<srv, world, res, pre, obs, served>>

\* the running invocation returns its result
Returned ==
    /\ pc = "task"
    /\ req.left = <<>>
    /\ req' = NoReq
    /\ pc' = "loop"
    /\ UNCHANGED <<srv, world, res, pre, obs, served, inp, out>>

NextLoop == Accepted \/ Resumed \/ Stepped \/ Returned

SpecLoop == InitLoop /\ [][NextLoop]_vars

-----------------------------------------------------------------------------
(* The scan of get_entities on drawings of many entities *)

\* a drawing of n lines, every third of them on layer WALLS and the others on
\* layer "0"
DrawingOfLines(n) ==
    [AddLayer(NewDrawing, "WALLS") EXCEPT
        !.ents = [i \in 1..n |->
                     [handle |-> <<"H", i>>, type |-> "AcDbLine",
                      layer |-> IF i % 3 = 0 THEN "WALLS" ELSE DefaultLayer,
                      color |-> ByLayer, geom |-> LineGeom(<<0, 0>>, <<1000, 0>>)]],
        !.next = n]

\* model_space.Count of the drawings scanned
TotalCounts == {0, 1, 100, 101, 500, 501, 1000, 1001}

\* the arguments of the scans: max_entities absent, negative, zero, and around
\* the batch size and the pause interval
ScanArgs ==
    {NoArgs} \cup {[max_entities |-> PyInt(n)] : n \in {0 - 1, 0, 1, 100, 250, 500, 501, 1000}}

\* no call fails, or the read of Count, or the reads of the first entity
ScanFaults == {{}, {3}, {5}}

InitScan ==
    /\ srv = [acad_app |-> 0, doc |-> 0, connected |-> FALSE]
    /\ world \in {[acad |-> "running", docs |-> <<DrawingOfLines(n)>>, activeDoc |-> 1] :
                     n \in TotalCounts}
    /\ pc = "start"
    /\ req = NoReq
    /\ res = NoRes
    /\ pre = NoPre
    /\ obs = NoObs
    /\ served = 0
    /\ inp = <<>>
    /\ out = <<>>

\* main(): connect_to_autocad(), every call of it served
ScanStartup ==
    /\ pc = "start"
    /\ Started(connect_to_autocad(State(srv, world, {})), {})
    /\ pc' = "idle"
    /\ UNCHANGED <<req, res, pre, obs, served, inp, out>>

ScanEntities == \E a \in ScanArgs, f \in ScanFaults : Call("get_entities", a, f)

NextScan == ScanStartup \/ ScanEntities

SpecScan == InitScan /\ [][NextScan]_vars

-----------------------------------------------------------------------------
(* Labelled structures: create_structure with a label, and                   *)
(* add_structure_label entered with any layer active                         *)

LabelText == "Sofa"

LabelledArgs ==
    {[structure_type |-> Chars_furniture, geometry_data |-> GCircle, label |-> PyStr(LabelText)],
     [structure_type |-> Chars_furniture, geometry_data |-> GLine, label |-> PyStr(LabelText)],
     [structure_type |-> Chars_furniture, geometry_data |-> GRect, label |-> PyStr(LabelText)],
     [structure_type |-> Chars_wall, geometry_data |-> GLine, label |-> PyStr(LabelText)]}

InitLabel == Init /\ world.acad = "running"

CreateLabelled == \E a \in LabelledArgs, f \in Faults : Call("create_structure", a, f)

\* the layers add_structure_label is entered on
LabelLayers == {"0", "FURNITURE", "WALLS"}

\* add_structure_label entered in state s1 with the failures f ahead
LabelAdded(s1, g, f) ==
    /\ Handled([exc |-> "none"]
                   @@ add_structure_label(State(ServerOf(s1), WorldOf(s1), f), g,
                                          LabelText, "FURNITURE"),
               f)
    /\ req' = [name |-> "add_structure_label",
               args |-> [geometry_data |-> g, label |-> PyStr(LabelText)], fault |-> f]
    /\ pre' = [srv |-> ServerOf(s1), world |-> WorldOf(s1)]

\* a call of the method add_structure_label as create_structure makes it:
\* after set_current_layer(layer_name)
AddStructureLabel ==
    /\ pc = "idle"
    /\ served < MaxRequests
    /\ served' = served + 1
    /\ \E l \in LabelLayers, g \in {GCircle, GLine, GRect, GNone}, f \in Faults :
           LabelAdded(set_current_layer(State(srv, world, {}), l).s, g, f)
    /\ pc' = "reply"
    /\ UNCHANGED <<inp, out>>

NextLabel == Startup \/ CreateLabelled \/ AddStructureLabel

SpecLabel == InitLabel /\ [][NextLabel]_vars

-----------------------------------------------------------------------------
(* The connection on its own: main's connect_to_autocad, then calls of       *)
(* ensure_connection, while the application starts, exits, or stops          *)
(* answering in the middle of a call                                         *)

\* the application stops answering at the k-th external call of an invocation
\* and stays silent for the rest of it (after that, every entry of
\* layer_definitions costs at most three calls)
Outages == {k .. (MaxCall + 3 * Len(layer_definitions)) : k \in 1..MaxCall}

\* what a call of connect_to_autocad or ensure_connection that ended as c leaves
\* behind; the failures f need not all hit a call
Connected(name, c, f) ==
    /\ srv' = ServerOf(c.s)
    /\ world' = WorldOf(c.s)
    /\ obs' = ObsOf(c.s)
    /\ req' = [name |-> name, fault |-> f]
    /\ res' = [exc |-> "none", r |-> [v |-> c.v]]
    /\ pre' = [srv |-> srv, world |-> world]
    /\ pc' = "reply"

\* main(): connect_to_autocad()
ConnectToAutocad ==
    /\ pc = "start"
    /\ \E f \in Faults \cup Outages :
           Connected("connect_to_autocad", connect_to_autocad(State(srv, world, f)), f)
    /\ UNCHANGED <<served, inp, out>>

\* the first statement of every tool method
EnsureConnection ==
    /\ pc = "idle"
    /\ served < MaxRequests
    /\ served' = served + 1
    /\ \E f \in Faults \cup Outages :
           Connected("ensure_connection", ensure_connection(State(srv, world, f)), f)
    /\ UNCHANGED <<inp, out>>

NextConnect == ConnectToAutocad \/ EnsureConnection \/ Reply \/ AppStart \/ AppExit

SpecConnect == Init /\ [][NextConnect]_vars

-----------------------------------------------------------------------------
(* Structure types: which constructor create_structure picks and which layer *)
(* it picks, for one door-shaped descriptor                                  *)

StructureTypes ==
    {Chars_wall, <<"p","a","r","t","i","t","i","o","n">>, <<"W","a","l","l">>,
     <<"d","r","y","w","a","l","l">>,
     Chars_door, <<"o","p","e","n","i","n","g">>, <<"d","o","o","r","w","a","y">>,
     Chars_window, <<"s","k","y","l","i","g","h","t">>, Chars_furniture}

CreateTyped ==
    \E t \in StructureTypes, f \in Faults :
        Call("create_structure", [structure_type |-> t, geometry_data |-> GDoor], f)

NextShape == Startup \/ CreateTyped

SpecShape == InitLabel /\ [][NextShape]_vars

-----------------------------------------------------------------------------
(* Deleting by handle, with a failure at any external call up to the Regen   *)
(* that follows the Delete                                                   *)

\* delete_entity_by_handle makes, when connected, the calls doc.Name,
\* ModelSpace, Count, then Item and Handle for every entity up to the one
\* sought, then Delete and Regen: at most eleven on a drawing of three
DeleteFaults == {{}} \cup {{k} : k \in 1..11}

DeleteHandles == {[handle |-> <<"H", n>>] : n \in 0..3}

InitDelete ==
    /\ srv = [acad_app |-> 0, doc |-> 0, connected |-> FALSE]
    /\ world \in {[acad |-> "running", docs |-> <<DrawingOfLines(n)>>, activeDoc |-> 1] :
                     n \in 0..3}
    /\ pc = "start"
    /\ req = NoReq
    /\ res = NoRes
    /\ pre = NoPre
    /\ obs = NoObs
    /\ served = 0
    /\ inp = <<>>
    /\ out = <<>>

DeleteByHandle ==
    \E a \in DeleteHandles, f \in DeleteFaults : Call("delete_entity_by_handle", a, f)

NextDelete == Startup \/ DeleteByHandle

SpecDelete == InitDelete /\ [][NextDelete]_vars

-----------------------------------------------------------------------------
(* Properties *)

\* a result has come back for a request
Replied(name) == pc = "reply" /\ req.name = name

\* the server was connected to an open drawing when the request arrived, and
\* refers to the same open drawing now
ConnectedAcross ==
    /\ pre.srv.connected
    /\ pre.world.acad = "running"
    /\ pre.srv.doc # 0
    /\ pre.world.docs[pre.srv.doc].open
    /\ srv.connected
    /\ srv.doc = pre.srv.doc
    /\ world.docs[srv.doc].open

DrawingBefore == pre.world.docs[pre.srv.doc]
DrawingAfter == world.docs[srv.doc]

\* the result of the except clause of handle_call_tool
IsCatchAll(r) == "error" \in DOMAIN r /\ r.error[1] = "Error calling tool "

\* C1: a create_structure call made while connected leaves the drawing's active
\* layer as it found it, whatever its arguments and whether it returns a
\* success or an error (here: even when every external call succeeds)
C1_ActiveLayerRestored ==
    (Replied("create_structure") /\ req.fault = {} /\ ConnectedAcross)
        => DrawingAfter.active = DrawingBefore.active

\* create_structure returned "Unsupported geometry data" and left the
\* structure's layer active
C1_LeftOnStructureLayer ==
    /\ Replied("create_structure")
    /\ req.fault = {}
    /\ ConnectedAcross
    /\ req.args = [structure_type |-> Chars_furniture, geometry_data |-> GNone]
    /\ "error" \in DOMAIN res.r
    /\ DrawingBefore.active = "0"
    /\ DrawingAfter.active = "FURNITURE"

\* C2: every result handle_call_tool returns has a "success" field or an
\* "error" field
C2_SuccessOrError ==
    pc = "reply" => ("success" \in DOMAIN res.r \/ "error" \in DOMAIN res.r)

\* get_drawing_info answered on its normal path with neither field
C2_InfoWithoutEither ==
    /\ Replied("get_drawing_info")
    /\ req.fault = {}
    /\ ConnectedAcross
    /\ "total_layers" \in DOMAIN res.r
    /\ "success" \notin DOMAIN res.r
    /\ "error" \notin DOMAIN res.r

\* C3: a listed tool called with its required arguments while connected runs
\* its operation and never ends in the catch-all "Error calling tool" result
C3_ListedToolsDispatch ==
    (/\ pc = "reply"
     /\ req.name \in ListedToolNames
     /\ Required[req.name] \subseteq DOMAIN req.args
     /\ ConnectedAcross)
        => ~IsCatchAll(res.r)

\* a listed tool whose operation the server does not have ended in the
\* catch-all result
C3_MissingOperation ==
    /\ Replied("undo_last_operation")
    /\ ConnectedAcross
    /\ res.r = [error |-> <<"Error calling tool ", "undo_last_operation", ": ",
                            "AttributeError">>]

\* C4: delete_all_entities with confirm false or omitted removes no entity
\* and returns an explicit refusal, not the report of a failed call
C4_DeleteAllRefused ==
    (/\ Replied("delete_all_entities")
     /\ ~Get(req.args, "confirm", FALSE)
     /\ ConnectedAcross)
        => (DrawingAfter.ents = DrawingBefore.ents /\ ~IsCatchAll(res.r))

\* delete_all_entities(confirm=false) on a drawing that holds an entity: the
\* entity stays, and the result is the catch-all one
C4_DeleteAllCrashed ==
    /\ Replied("delete_all_entities")
    /\ req.args = [confirm |-> FALSE]
    /\ ConnectedAcross
    /\ DrawingBefore.ents # <<>>
    /\ DrawingAfter.ents = DrawingBefore.ents
    /\ IsCatchAll(res.r)

\* C5: when the connection could not be established (the reconnect attempt
\* was made and failed), every tool the server implements returns exactly
\* {"error": "Not connected to AutoCAD"} and changes no drawing
C5_NotConnectedError ==
    (/\ pc = "reply"
     /\ req.name \in Methods
     /\ Required[req.name] \subseteq DOMAIN req.args
     /\ obs.connects > 0
     /\ ~srv.connected)
        => (res.r = NotConnected /\ world.docs = pre.world.docs)

\* set_current_layer without a reachable application answered
\* {"success": false, "layer_name": ...}
C5_LayerToolSaysFalse ==
    /\ Replied("set_current_layer")
    /\ pre.world.acad = "absent"
    /\ obs.connects > 0
    /\ ~srv.connected
    /\ res.r = [success |-> FALSE, layer_name |-> "WALLS"]

\* C6: handle_call_tool lets no exception out: whatever the tool name, the
\* arguments and the external calls that fail, it returns a result object
\* (for a name it does not know, {"error": "Unknown tool: <name>"}), and the
\* server goes on to wait for the next request
C6_NoExceptionEscapes ==
    pc = "reply"
        => (/\ res.exc = "none"
            /\ DOMAIN res.r # {}
            /\ DOMAIN res.r \subseteq STRING
            /\ req.name \notin BranchNames
                   => res.r = [error |-> <<"Unknown tool: ", req.name>>]
            /\ ENABLED Reply)

\* an exception raised inside the dispatcher came back as a result
C6_ExceptionReported ==
    /\ Replied("create_line")
    /\ "end" \notin DOMAIN req.args
    /\ res.exc = "none"
    /\ res.r = [error |-> <<"Error calling tool ", "create_line", ": ", "KeyError">>]

\* C7: create_structure reports success only when its constructor produced an
\* entity handle (here: even when every external call succeeds)
C7_SuccessMeansHandles ==
    (/\ Replied("create_structure")
     /\ req.fault = {}
     /\ "success" \in DOMAIN res.r
     /\ res.r.success)
        => res.r.handles # <<>>

\* a wall without start and end came back as success with no handle
C7_SuccessWithoutHandles ==
    /\ Replied("create_structure")
    /\ req.fault = {}
    /\ req.args = [structure_type |-> Chars_wall, geometry_data |-> GNone]
    /\ "success" \in DOMAIN res.r
    /\ res.r.success
    /\ res.r.handles = <<>>
    /\ DrawingAfter.ents = DrawingBefore.ents

\* entry i of type_mapping is the first whose keyword is a substring of str
FirstMatch(str, i) ==
    /\ IsSubstring(type_mapping[i][1], str)
    /\ \A j \in 1..(i - 1) : ~IsSubstring(type_mapping[j][1], str)

\* what the claim says of input x and result y
Classified(x, y) ==
    /\ \/ \E i \in 1..Len(type_mapping) :
              FirstMatch(x, i) /\ y = LayerDef(type_mapping[i][2]).name
       \/ y = "0" /\ \A i \in 1..Len(type_mapping) : ~IsSubstring(type_mapping[i][1], x)

\* C8: get_layer_for_structure_type returns the layer of the keyword declared
\* first among those that are substrings of the lower-cased input, and "0"
\* when there is none; "garage_door" gives "DOORS", "kitchen_chair" "FURNITURE"
C8_FirstKeywordWins ==
    pc = "output"
        => (/\ Classified(lower(inp), out)
            /\ inp = <<"g","a","r","a","g","e","_","d","o","o","r">> => out = "DOORS"
            /\ inp = <<"k","i","t","c","h","e","n","_","c","h","a","i","r">>
                   => out = "FURNITURE")

\* an input in upper case holding two keywords of different layers was
\* classified by the one declared first
C8_TwoKeywords ==
    /\ pc = "output"
    /\ inp = <<"C","H","A","I","R","_","D","O","O","R">>
    /\ out = "DOORS"

\* two strings are the same up to letter case
SameName(a, b) ==
    Len(a) = Len(b) /\ \A i \in 1..Len(a) : LowerChar(a[i]) = LowerChar(b[i])

\* C9: get_color_index returns the table's index for a table name in any
\* letter case, 7 for any other string, and an integer unchanged
C9_ColorResolved ==
    pc = "output"
        => (/\ out.exc = "none"
            /\ inp.t = "int" => out.v = inp.v
            /\ inp.t = "str"
                   => (/\ \A key \in DOMAIN color_map :
                              SameName(key, inp.v) => out.v = color_map[key]
                       /\ (\A key \in DOMAIN color_map : ~SameName(key, inp.v))
                              => out.v = 7))

\* a table name in upper case was resolved to its index
C9_UpperCaseName ==
    /\ pc = "output"
    /\ inp = PyStr(<<"B","L","U","E">>)
    /\ out.v = 5

Digits == <<"0","1","2","3","4","5","6","7","8","9">>

IsDecimal(str) ==
    Len(str) > 0 /\ \A i \in 1..Len(str) : \E d \in 1..Len(Digits) : Digits[d] = str[i]

\* int(str) on decimal text
RECURSIVE DecimalValue(_)
DecimalValue(str) ==
    IF Len(str) = 0 THEN 0
    ELSE 10 * DecimalValue(SubSeq(str, 1, Len(str) - 1))
             + (CHOOSE d \in 1..Len(Digits) : Digits[d] = str[Len(str)]) - 1

\* C10: a color argument that is the decimal text of an index n gives the
\* entity created the color index n (here: a line, every external call
\* succeeding)
C10_DecimalTextSelectsIndex ==
    (/\ Replied("create_line")
     /\ req.fault = {}
     /\ ConnectedAcross
     /\ Required["create_line"] \subseteq DOMAIN req.args
     /\ Get(req.args, "color", White).t = "str"
     /\ IsDecimal(Get(req.args, "color", White).v)
     /\ Len(DrawingAfter.ents) > Len(DrawingBefore.ents))
        => DrawingAfter.ents[Len(DrawingAfter.ents)].color
               = DecimalValue(req.args.color.v)

\* the line asked for with color "5" was drawn with index 7
C10_TextFiveDrawnWhite ==
    /\ Replied("create_line")
    /\ req.fault = {}
    /\ ConnectedAcross
    /\ req.args = [start |-> <<0, 0>>, end |-> <<1000, 0>>, color |-> PyStr(<<"5">>)]
    /\ res.r.success
    /\ Len(DrawingAfter.ents) = Len(DrawingBefore.ents) + 1
    /\ DrawingAfter.ents[Len(DrawingAfter.ents)].color = 7

\* the layers of drawing d called layer_name
LayersNamed(d, layer_name) == {i \in 1..Len(d.layers) : d.layers[i].name = layer_name}

\* C11: create_or_get_layer on a name the drawing already has leaves exactly
\* one layer of that name, with the color and the description it had
C11_ExistingLayerUntouched ==
    (/\ Replied("create_or_get_layer")
     /\ "layer_name" \in DOMAIN req.args
     /\ ConnectedAcross
     /\ req.args.layer_name \in LayerNames(DrawingBefore))
        => (/\ Cardinality(LayersNamed(DrawingAfter, req.args.layer_name)) = 1
            /\ DrawingAfter.layers[LayerIndex(DrawingAfter, req.args.layer_name)]
                   = DrawingBefore.layers[LayerIndex(DrawingBefore, req.args.layer_name)])

\* the lookup of the existing layer WALLS failed, and the call gave the layer
\* the color and the description of the request and returned true
C11_ExistingLayerRepainted ==
    /\ Replied("create_or_get_layer")
    /\ ConnectedAcross
    /\ req.args = [layer_name |-> "WALLS", color |-> PyStr(<<"r","e","d">>),
                   description |-> "again"]
    /\ req.fault = {3}
    /\ DrawingBefore.layers[LayerIndex(DrawingBefore, "WALLS")].color = 7
    /\ DrawingAfter.layers[LayerIndex(DrawingAfter, "WALLS")].color = 1
    /\ DrawingAfter.layers[LayerIndex(DrawingAfter, "WALLS")].description = "again"
    /\ res.r.success

\* the same call with every external call succeeding changed nothing and
\* returned true
C11_ExistingLayerFound ==
    /\ Replied("create_or_get_layer")
    /\ ConnectedAcross
    /\ req.args = [layer_name |-> "WALLS", color |-> PyStr(<<"r","e","d">>),
                   description |-> "again"]
    /\ req.fault = {}
    /\ DrawingAfter = DrawingBefore
    /\ res.r.success

\* the eleven predefined layer names
PredefinedLayers == {layer_definitions[i].name : i \in 1..Len(layer_definitions)}

\* a step of the server (startup, an invocation, a reply), as opposed to a
\* step of the user or the application
ServerStep == pc' # pc

\* every drawing keeps the layer names it had
LayerNamesKept ==
    \A i \in 1..Len(world.docs) :
        /\ i <= Len(world'.docs)
        /\ LayerNames(world.docs[i]) \subseteq LayerNames(world'.docs[i])

\* the step ran connect_to_autocad with every external call succeeding, and
\* the connection was made
ConnectedCleanly ==
    /\ srv'.connected
    /\ \/ /\ pc = "start"
          /\ srv' = ServerOf(connect_to_autocad(State(srv, world, {})).s)
          /\ world' = WorldOf(connect_to_autocad(State(srv, world, {})).s)
       \/ /\ pc = "idle"
          /\ req'.fault = {}
          /\ obs'.connects > 0

\* C12: no step of the server removes or renames a layer of any drawing, and
\* a step in which connect_to_autocad succeeded with every external call
\* succeeding leaves all eleven predefined layers in the server's drawing
C12_LayersOnlyGrow ==
    [][ServerStep =>
          /\ LayerNamesKept
          /\ ConnectedCleanly =>
                 PredefinedLayers \subseteq LayerNames(world'.docs[srv'.doc])]_vars

\* an invocation reconnected with every external call succeeding, on a server
\* whose startup had left it unconnected, and the drawing now has the eleven
\* predefined layers besides layer "0"
C12_ReconnectMadeLayers ==
    /\ pc = "reply"
    /\ req.fault = {}
    /\ obs.connects > 0
    /\ ~pre.srv.connected
    /\ srv.connected
    /\ LayerNames(DrawingAfter) = PredefinedLayers \cup {DefaultLayer}

\* the request asks for a wall between two points, with the thickness left
\* out or not positive and no color, custom layer or label
PlainWall(a) ==
    /\ "structure_type" \in DOMAIN a
    /\ lower(a.structure_type) = <<"w","a","l","l">>
    /\ "start" \in DOMAIN a.geometry_data
    /\ "end" \in DOMAIN a.geometry_data
    /\ "thickness" \in DOMAIN a => a.thickness <= 0
    /\ DOMAIN a \cap {"color", "custom_layer", "label"} = {}

\* the entities the invocation added to the drawing, in creation order
Added == SubSeq(DrawingAfter.ents, Len(DrawingBefore.ents) + 1, Len(DrawingAfter.ents))

\* the four segments of a line from start to end drawn with thickness t: the
\* line, its parallel through the points par, and the two caps
ThickLineGeoms(start, end, par) ==
    <<LineGeom(start, end), FlatLineGeom(par[1], par[2]),
      FlatLineGeom(start, par[1]), FlatLineGeom(end, par[2])>>

\* C13: a wall between two points, thickness omitted or not positive, every
\* external call succeeding, is drawn with thickness 0.1: the result is a
\* success with exactly 4 handles (main line, parallel line 0.05 away, two
\* caps), layer "WALLS" and color "white"
C13_WallDefaultThickness ==
    (/\ Replied("create_structure")
     /\ req.fault = {}
     /\ ConnectedAcross
     /\ "WALLS" \in LayerNames(DrawingBefore)    \* layers.Item("WALLS") succeeds
     /\ PlainWall(req.args))
        => (/\ Succeeded(res.r)
            /\ Len(res.r.handles) = 4
            /\ res.r.layer = "WALLS"
            /\ res.r.color = White
            /\ Len(Added) = 4
            /\ \A i \in 1..4 :
                   /\ Added[i].handle = res.r.handles[i]
                   /\ Added[i].type = "AcDbLine"
                   /\ Added[i].layer = "WALLS"
                   /\ Added[i].color = DefaultColorIndex
                   /\ Added[i].geom =
                          ThickLineGeoms(req.args.geometry_data.start,
                                         req.args.geometry_data.end,
                                         <<<<0, DefaultWallThickness \div 2>>,
                                           <<1000, DefaultWallThickness \div 2>>>>)[i])

\* the wall from (0,0) to (10,0) with no thickness given came back with four
\* handles
C13_ScenarioWall ==
    /\ Replied("create_structure")
    /\ req.fault = {}
    /\ ConnectedAcross
    /\ "WALLS" \in LayerNames(DrawingBefore)
    /\ req.args = [structure_type |-> Chars_wall, geometry_data |-> GLine]
    /\ Succeeded(res.r)
    /\ Len(res.r.handles) = 4
    /\ Len(Added) = 4

\* the wall with thickness -0.1 came back with four handles
C13_NegativeThicknessWall ==
    /\ Replied("create_structure")
    /\ req.fault = {}
    /\ ConnectedAcross
    /\ req.args = [structure_type |-> Chars_wall, geometry_data |-> GLine,
                   thickness |-> -10]
    /\ Len(res.r.handles) = 4

\* segment g runs alongside the segment from start to end: it is that segment
\* moved by a vector perpendicular to it, of length t/2
ParallelAt(g, start, end, t) ==
    /\ g.end[1] - end[1] = g.start[1] - start[1]
    /\ g.end[2] - end[2] = g.start[2] - start[2]
    /\ (g.start[1] - start[1]) * (end[1] - start[1])
           + (g.start[2] - start[2]) * (end[2] - start[2]) = 0
    /\ 4 * ((g.start[1] - start[1]) * (g.start[1] - start[1])
               + (g.start[2] - start[2]) * (g.start[2] - start[2])) = t * t

\* segment g joins the points p and q of the plane
Joins(g, p, q) ==
    /\ <<g.start[1], g.start[2]>> = <<p[1], p[2]>>
    /\ <<g.end[1], g.end[2]>> = <<q[1], q[2]>>

\* C14: create_line with thickness t > 0, every external call succeeding,
\* adds exactly 4 segments: start-end, a parallel at perpendicular distance
\* t/2, and two caps joining each endpoint to the parallel's matching endpoint
C14_ThickLineOffset ==
    (/\ Replied("create_line")
     /\ req.fault = {}
     /\ ConnectedAcross
     /\ {"start", "end", "thickness"} \subseteq DOMAIN req.args
     /\ req.args.thickness > 0)
        => (/\ Len(Added) = 4
            /\ \A i \in 1..4 : Added[i].type = "AcDbLine"
            /\ Joins(Added[1].geom, req.args.start, req.args.end)
            /\ ParallelAt(Added[2].geom, req.args.start, req.args.end,
                          req.args.thickness)
            /\ Joins(Added[3].geom, req.args.start, Added[2].geom.start)
            /\ Joins(Added[4].geom, req.args.end, Added[2].geom.end))

\* a line of thickness 0.1 from (2,2) to (2,2) was drawn as four segments that
\* all lie on the point (2,2): the parallel is at distance 0, not 0.05
C14_CoincidentPointsNoOffset ==
    /\ Replied("create_line")
    /\ req.fault = {}
    /\ ConnectedAcross
    /\ req.args = [start |-> <<200, 200>>, end |-> <<200, 200>>, thickness |-> 10]
    /\ Succeeded(res.r)
    /\ Len(res.r.handles) = 4
    /\ Len(Added) = 4
    /\ \A i \in 1..4 : Joins(Added[i].geom, <<200, 200>>, <<200, 200>>)

\* a line of thickness 0.1 from (0,0) to (3,4) was drawn with its parallel
\* from (-0.04,0.03) to (2.96,4.03), at distance 0.05
C14_SlantedLineOffset ==
    /\ Replied("create_line")
    /\ req.fault = {}
    /\ ConnectedAcross
    /\ "thickness" \in DOMAIN req.args
    /\ req.args.end = <<300, 400>>
    /\ Len(Added) = 4
    /\ Joins(Added[2].geom, <<-4, 3>>, <<296, 403>>)
    /\ ParallelAt(Added[2].geom, req.args.start, req.args.end, req.args.thickness)

\* the thickness handle_call_tool hands on: arguments.get("thickness", 0.0)
ThicknessOf(a) == IF "thickness" \in DOMAIN a THEN a.thickness ELSE 0

\* the request is a create_rectangle with both corners, answered with every
\* external call succeeding
RectangleDrawn ==
    /\ Replied("create_rectangle")
    /\ req.fault = {}
    /\ ConnectedAcross
    /\ {"corner1", "corner2"} \subseteq DOMAIN req.args

\* the segments seg[1], seg[1 + n], seg[1 + 2n], seg[1 + 3n] are the bottom,
\* right, top and left edge of the rectangle with opposite corners c1 and c2,
\* in this order; each starts where the one before it ended and the last
\* ends where the first started
EdgesInOrder(seg, n, c1, c2) ==
    /\ Joins(seg[1].geom, <<c1[1], c1[2]>>, <<c2[1], c1[2]>>)
    /\ Joins(seg[1 + n].geom, <<c2[1], c1[2]>>, <<c2[1], c2[2]>>)
    /\ Joins(seg[1 + 2 * n].geom, <<c2[1], c2[2]>>, <<c1[1], c2[2]>>)
    /\ Joins(seg[1 + 3 * n].geom, <<c1[1], c2[2]>>, <<c1[1], c1[2]>>)
    /\ \A i \in 0..3 :
           seg[1 + i * n].geom.end = seg[1 + ((i + 1) % 4) * n].geom.start
    /\ {<<seg[1 + i * n].geom.start[1], seg[1 + i * n].geom.start[2]>> : i \in 0..3}
           = {c1[1], c2[1]} \X {c1[2], c2[2]}

ThickCircleDrawn ==
    /\ Replied("create_circle")
    /\ req.fault = {}
    /\ ConnectedAcross
    /\ {"center", "radius"} \subseteq DOMAIN req.args
    /\ ThicknessOf(req.args) > 0

\* max(0.1, r - t/2)
InnerRadius(r, t) == IF r - t \div 2 < 10 THEN 10 ELSE r - t \div 2

C16_InnerRadiusAboveFloor ==
    /\ ThickCircleDrawn
    /\ req.args.radius = 100
    /\ Len(Added) = 3
    /\ Added[2].geom.radius = 110
    /\ Added[3].geom.radius = 90

\* the server is idle and connected to an open drawing
IdleConnected ==
    /\ pc = "idle"
    /\ srv.connected
    /\ world.acad = "running"
    /\ srv.doc # 0
    /\ world.docs[srv.doc].open

\* the state the server and the application are in after the invocation h
After(h) == State(ServerOf(h.s), WorldOf(h.s), {})

\* delete_entities_by_color("red") and delete_entities_by_type("AcDbText"),
\* each invoked in the state s with every external call succeeding
ByColorRed(s) ==
    handle_call_tool(s, "delete_entities_by_color", [color |-> PyStr(<<"r","e","d">>)])
ByTypeText(s) ==
    handle_call_tool(s, "delete_entities_by_type", [entity_type |-> "AcDbText"])

\* the entities left in the server's drawing in state s
Remaining(s) == {Dwg(s).ents[i] : i \in 1..Len(Dwg(s).ents)}

IsRed(e) == e.color = color_map[<<"r","e","d">>]
IsText(e) == e.type = "AcDbText"

ActiveLayersKept ==
    \A i \in 1..Len(pre.world.docs) : world.docs[i].active = pre.world.docs[i].active

\* C18: set_current_layer(name) raises nothing and returns a boolean: true
\* only with the server connected to an open drawing whose active layer is
\* now the layer called name; false when the layer does not exist, when the
\* assignment failed and when there is no connection, and then every drawing
\* has the active layer it had before the call
C18_TrueIffSwitched ==
    (Replied("set_current_layer") /\ "layer_name" \in DOMAIN req.args)
        => (/\ res.exc = "none"
            /\ DOMAIN res.r = {"success", "layer_name"}
            /\ res.r.success \in BOOLEAN
            /\ res.r.success =>
                   (/\ srv.connected
                    /\ world.acad = "running"
                    /\ DrawingAfter.open
                    /\ req.args.layer_name \in LayerNames(DrawingAfter)
                    /\ DrawingAfter.active = req.args.layer_name)
            /\ ~res.r.success => ActiveLayersKept
            /\ ~srv.connected => ~res.r.success
            /\ (srv.connected /\ req.args.layer_name \notin LayerNames(DrawingAfter))
                   => ~res.r.success
            /\ (ConnectedAcross /\ DrawingAfter.active # req.args.layer_name)
                   => ~res.r.success)

\* the assignment to ActiveLayer failed for the existing layer WALLS: the call
\* returned false and the active layer is still "0"
C18_AssignmentFailed ==
    /\ Replied("set_current_layer")
    /\ ConnectedAcross
    /\ req.args.layer_name = "WALLS"
    /\ "WALLS" \in LayerNames(DrawingBefore)
    /\ req.fault = {4}
    /\ ~res.r.success
    /\ DrawingBefore.active = "0"
    /\ DrawingAfter.active = "0"

\* the layer WALLS was made the active layer and the call returned true
C18_Switched ==
    /\ Replied("set_current_layer")
    /\ ConnectedAcross
    /\ req.args.layer_name = "WALLS"
    /\ res.r.success
    /\ DrawingBefore.active = "0"
    /\ DrawingAfter.active = "WALLS"

\* C19: one invocation calls connect_to_autocad at most once
C19_AtMostOneConnect == pc = "reply" => obs.connects <= 1

\* an invocation that found the server unconnected called connect_to_autocad
\* twice: the first call connected and ran ensure_structure_layers, the probe
\* of ensure_connection inside create_or_get_layer failed once, and
\* connect_to_autocad was entered again from inside the first call
C19_ConnectInsideConnect ==
    /\ pc = "reply"
    /\ ~pre.srv.connected
    /\ Cardinality(req.fault) = 1
    /\ obs.connects = 2
    /\ srv.connected

\* C20: invocations never interleave: in the order in which the event loop
\* executes steps, no step of one invocation lies between two steps of
\* another, and while an invocation has begun and not returned only it steps
C20_NoInterleaving ==
    /\ \A i, j, k \in 1..Len(out) :
           (i < j /\ j < k /\ out[i].id = out[k].id) => out[j].id = out[i].id
    /\ \A i \in 1..Len(inp) :
           \A j \in 1..Len(out) : out[j].id # inp[i].id

\* a second request is waiting while an invocation is between two of its
\* steps, after a settle delay
C20_RequestWaitsDuringInvocation ==
    /\ pc = "task"
    /\ inp # <<>>
    /\ req.left # <<>>
    /\ out # <<>>
    /\ out[Len(out)] = [id |-> req.id, step |-> "sleep"]

\* the invocation got past its connection check and returned a result of its
\* own
Operated == res.exc = "none" /\ res.r # NotConnected /\ ~IsCatchAll(res.r)

\* the request is a create_line without thickness: one call of safe_operation
ThinLine ==
    /\ Replied("create_line")
    /\ {"start", "end"} \subseteq DOMAIN req.args
    /\ ThicknessOf(req.args) <= 0
    /\ Operated

\* the request is a create_circle with thickness: three calls of
\* safe_operation, whatever each returns
ThickCircle ==
    /\ Replied("create_circle")
    /\ {"center", "radius"} \subseteq DOMAIN req.args
    /\ ThicknessOf(req.args) > 0
    /\ Operated

\* C21: safe_operation attempts its operation once and then waits once,
\* whether the operation returned or raised; it returns the operation's
\* result, or None on an exception, and raises nothing. So a line without
\* thickness costs one settle delay and adds at most one entity, with the
\* entity's handle reported when the operation returned and the placeholder
\* of a None result when it raised; a thick circle costs three settle delays
\* and adds at most three entities
C21_OneAttemptOneDelay ==
    /\ ThinLine =>
           (/\ obs.sleeps = 1
            /\ Len(res.r.handles) = 1
            /\ ConnectedAcross =>
                   (/\ Len(Added) <= 1
                    /\ req.fault = {} =>
                           (Len(Added) = 1 /\ res.r.handles[1] = Added[1].handle)
                    /\ Len(Added) = 0 => res.r.handles[1] = <<"line_created">>))
    /\ ThickCircle =>
           (/\ obs.sleeps = 3
            /\ ConnectedAcross => Len(Added) <= 3)

\* AddLine failed: nothing was drawn, safe_operation waited once and returned
\* None, and create_line went on to report its placeholder
C21_FailedOperationWaited ==
    /\ ThinLine
    /\ ConnectedAcross
    /\ req.fault # {}
    /\ Len(Added) = 0
    /\ obs.sleeps = 1
    /\ res.r.handles = << <<"line_created">> >>

\* the request is a get_entities that returned its scan of the drawing the
\* server was and still is connected to
Scanned ==
    /\ Replied("get_entities")
    /\ res.exc = "none"
    /\ "entities" \in DOMAIN res.r
    /\ ConnectedAcross

\* model_space.Item(0) is the 4th external call of a get_entities made while
\* connected (doc.Name, ModelSpace, Count, Item): it returned the entity, so
\* every call that failed was a read of one of the entity's properties
FirstItemFetched == 4 \notin req.fault

\* range(count) of the scan: count is total_count, capped by max_entities
ScannedRange ==
    IF "max_entities" \in DOMAIN req.args
    THEN 0 .. (Min(res.r.total_count, req.args.max_entities.v) - 1)
    ELSE 0 .. (res.r.total_count - 1)

\* C22: get_entities degrades per property, not per entity: every entity of
\* the scanned range has a record in the result, whichever of its property
\* reads failed
C22_EveryEntityHasRecord ==
    (Scanned /\ FirstItemFetched) =>
        \A i \in ScannedRange :
            \E n \in 1..Len(res.r.entities) : res.r.entities[n].index = i

\* the read of the entity's type, layer, handle and color failed: the drawing
\* holds one entity, it was counted and scanned, and it has no record
C22_EntityDroppedOnFailedRead ==
    /\ Scanned
    /\ FirstItemFetched
    /\ req.fault = {5}
    /\ Len(DrawingBefore.ents) = 1
    /\ res.r.total_count = 1
    /\ 0 \in ScannedRange
    /\ res.r.entities = <<>>
    /\ res.r.returned_count = 0
    /\ DrawingAfter.ents = DrawingBefore.ents

\* len(range(count)) of the scan
ScannedCount == Cardinality(ScannedRange)

\* C23: the scan of get_entities terminates for every total_count and every
\* max_entities, zero and negative ones included (it returns after at most six
\* external calls per entity of the drawing); it visits the indices
\* 0 .. min(total_count, max_entities) - 1 (all of them without max_entities)
\* once each in ascending order, and it pauses exactly at the multiples of 500
\* that leave entities to process
C23_ScanVisitsRangeOnce ==
    /\ (pc = "idle" /\ served = 0) =>
           \A a \in ScanArgs, f \in ScanFaults :
               handle_call_tool(State(srv, world, f), "get_entities", a).s.k
                   <= 3 + 6 * Len(world.docs[srv.doc].ents)
    /\ Scanned =>
           /\ \A n \in 1..Len(res.r.entities) : res.r.entities[n].index \in ScannedRange
           /\ \A n \in 2..Len(res.r.entities) :
                  res.r.entities[n - 1].index < res.r.entities[n].index
           /\ req.fault = {} =>
                  (/\ Len(res.r.entities) = ScannedCount
                   /\ \A n \in 1..ScannedCount : res.r.entities[n].index = n - 1
                   /\ obs.k = 3 + 6 * ScannedCount)
           /\ obs.pauses = Cardinality({p \in 1..(ScannedCount - 1) : p % PauseEvery = 0})
           /\ obs.sleeps = 0

\* a drawing of 1001 entities scanned to the end: ten batches of 100 and one of
\* 1, with a pause after 500 and after 1000
C23_TwoPauses ==
    /\ Scanned
    /\ req.fault = {}
    /\ req.args = NoArgs
    /\ res.r.total_count = 1001
    /\ res.r.returned_count = 1001
    /\ res.r.entities[1001].index = 1000
    /\ obs.pauses = 2

\* the point a label is due at: the descriptor's center, else the midpoint of
\* its start and end, else that of its corners
LabelPoint(g) ==
    IF "center" \in DOMAIN g THEN <<g.center[1], g.center[2], 0>>
    ELSE IF {"start", "end"} \subseteq DOMAIN g
    THEN <<(g.start[1] + g.end[1]) \div 2, (g.start[2] + g.end[2]) \div 2, 0>>
    ELSE <<(g.corner1[1] + g.corner2[1]) \div 2, (g.corner1[2] + g.corner2[2]) \div 2, 0>>

\* the entity added last is the label text, on ANNOTATION at its due point
LabelPlaced ==
    /\ Len(Added) >= 1
    /\ Added[Len(Added)].type = "AcDbText"
    /\ Added[Len(Added)].layer = "ANNOTATION"
    /\ Added[Len(Added)].geom.text = LabelText
    /\ Added[Len(Added)].geom.position = LabelPoint(req.args.geometry_data)
    /\ \A n \in 1..(Len(Added) - 1) : Added[n].type # "AcDbText"

\* the drawing has its ANNOTATION layer and every external call is served
LabelUnhindered ==
    /\ ConnectedAcross
    /\ req.fault = {}
    /\ "ANNOTATION" \in LayerNames(DrawingBefore)

Listed(r) == {HandlesOf(r)[m] : m \in 1..Len(HandlesOf(r))}

\* C25: every entity a create_structure call adds to the drawing has its handle
\* in the returned "handles" list, the label text included
C25_AddedHandlesListed ==
    (Replied("create_structure") /\ ConnectedAcross /\ res.exc = "none" /\ Succeeded(res.r))
        => \A n \in 1..Len(Added) : Added[n].handle \in Listed(res.r)

\* the labelled circle, every external call served: circle and text were added,
\* the circle's handle is listed and the text's is not
C25_LabelHandleMissing ==
    /\ Replied("create_structure")
    /\ ConnectedAcross
    /\ req.fault = {}
    /\ "label" \in DOMAIN req.args
    /\ Succeeded(res.r)
    /\ Len(Added) = 2
    /\ Added[1].type = "AcDbCircle"
    /\ Added[2].type = "AcDbText"
    /\ res.r.handles = <<Added[1].handle>>
    /\ Added[2].handle \notin Listed(res.r)

\* the handles a primitive's result reports: its "handles" list, or its
\* "handle" field
Reported(r) ==
    IF "handles" \in DOMAIN r THEN r.handles
    ELSE IF "handle" \in DOMAIN r THEN <<r.handle>>
    ELSE <<>>

\* a primitive-creation tool replied on the drawing it was called on
PrimitiveReplied ==
    /\ pc = "reply"
    /\ req.name \in {"create_line", "create_circle", "create_rectangle", "create_arc",
                      "create_text"}
    /\ res.exc = "none"
    /\ ConnectedAcross

\* C26: every handle in the result of create_line, create_circle,
\* create_rectangle, create_arc or create_text is the handle of an entity the
\* call added to the drawing; a failed creation call reports no handle, and as
\* many handles are reported as entities were added
C26_ReportedHandlesAreAdded ==
    PrimitiveReplied =>
        /\ \A m \in 1..Len(Reported(res.r)) :
               \E n \in 1..Len(Added) : Added[n].handle = Reported(res.r)[m]
        /\ Len(Reported(res.r)) = Len(Added)

\* AddText failed: no entity was added, and create_text reports success with
\* the handle "text_created"
C26_PlaceholderReported ==
    /\ PrimitiveReplied
    /\ req.name = "create_text"
    /\ req.fault = {3}
    /\ Succeeded(res.r)
    /\ Len(Added) = 0
    /\ res.r.handle = <<"text_created">>

\* connect_to_autocad or ensure_connection has returned
ConnectionReturned ==
    pc = "reply" /\ req.name \in {"connect_to_autocad", "ensure_connection"}

\* self.doc is an open drawing of the running application
DocumentAlive ==
    /\ world.acad = "running"
    /\ srv.doc # 0
    /\ world.docs[srv.doc].open

\* C27: whenever ensure_connection or connect_to_autocad returns true the
\* connected flag is true and the document reference is a live one, and
\* whenever it returns false the connected flag is false, also when a probe
\* fails during the layer setup inside a connect
C27_ReturnAgreesWithFlag ==
    ConnectionReturned =>
        /\ res.r.v => (srv.connected /\ DocumentAlive)
        /\ ~res.r.v => ~srv.connected

\* the application stopped answering at the first probe of the layer setup:
\* connect_to_autocad returned true and left the connected flag false
C27_TrueButDisconnected ==
    /\ ConnectionReturned
    /\ req.name = "connect_to_autocad"
    /\ req.fault \in Outages
    /\ res.r.v
    /\ ~srv.connected
    /\ obs.connects > 1

\* create_structure replied for a typed door-shaped descriptor, every external
\* call served and the predefined layers in place
TypedUnhindered ==
    /\ Replied("create_structure")
    /\ req.args.geometry_data = GDoor
    /\ DOMAIN req.args = {"structure_type", "geometry_data"}
    /\ ConnectedAcross
    /\ req.fault = {}
    /\ PredefinedLayers \subseteq LayerNames(DrawingBefore)

\* what each constructor draws for a descriptor with start, end and width and
\* no thickness given: the wall a line with its parallel and two caps, the door
\* a line and the swing arc, the window a line and its sill line
BuiltAsWall == Len(Added) = 4 /\ \A n \in 1..4 : Added[n].type = "AcDbLine"
BuiltAsDoor == Len(Added) = 2 /\ Added[1].type = "AcDbLine" /\ Added[2].type = "AcDbArc"
BuiltAsWindow == Len(Added) = 2 /\ \A n \in 1..2 : Added[n].type = "AcDbLine"

\* C28: in create_structure without custom_layer the constructor and the layer
\* agree: a structure is built by the wall constructor exactly when it is put
\* on WALLS, by the door constructor exactly when on DOORS, by the window
\* constructor exactly when on WINDOWS
C28_ConstructorAgreesWithLayer ==
    TypedUnhindered =>
        /\ BuiltAsWall <=> res.r.layer = "WALLS"
        /\ BuiltAsDoor <=> res.r.layer = "DOORS"
        /\ BuiltAsWindow <=> res.r.layer = "WINDOWS"

\* a "partition" was built by the wall constructor and put on layer "0"
C28_PartitionOffWalls ==
    /\ TypedUnhindered
    /\ req.args.structure_type = <<"p","a","r","t","i","t","i","o","n">>
    /\ Succeeded(res.r)
    /\ BuiltAsWall
    /\ res.r.layer = "0"
    /\ \A n \in 1..4 : Added[n].layer = "0"

\* get_entities returned a result with entities
Listing == Replied("get_entities") /\ res.exc = "none" /\ "entities" \in DOMAIN res.r

\* the sum of the sizes a layer_summary gives for the layers in S
RECURSIVE SizesSum(_, _)
SizesSum(summary, S) ==
    IF S = {} THEN 0
    ELSE LET layer_name == CHOOSE l \in S : TRUE
         IN  summary[layer_name] + SizesSum(summary, S \ {layer_name})

\* the records of res.r.entities on that layer, in scan order
OnLayer(layer_name) == SelectSeq(res.r.entities, LAMBDA e : e.layer = layer_name)

\* returned_count is the length of entities; entities_by_layer has one group
\* per layer that occurs, the group being the records of that layer in scan
\* order; layer_summary gives the groups' sizes, which sum to returned_count
Consistent ==
    /\ res.r.returned_count = Len(res.r.entities)
    /\ res.r.returned_count <= res.r.total_count
    /\ DOMAIN res.r.entities_by_layer
           = {res.r.entities[n].layer : n \in 1..Len(res.r.entities)}
    /\ \A l \in DOMAIN res.r.entities_by_layer :
           /\ res.r.entities_by_layer[l] = OnLayer(l)
           /\ res.r.entities_by_layer[l] # <<>>
    /\ DOMAIN res.r.layer_summary = DOMAIN res.r.entities_by_layer
    /\ \A l \in DOMAIN res.r.layer_summary :
           res.r.layer_summary[l] = Len(res.r.entities_by_layer[l])
    /\ SizesSum(res.r.layer_summary, DOMAIN res.r.layer_summary) = res.r.returned_count

\* C29 as stated: every successful get_entities result is consistent, and its
\* returned_count is at most min(total_count, max_entities)
C29_AtMostTheMinimum ==
    Listing =>
        /\ Consistent
        /\ "max_entities" \in DOMAIN req.args =>
               res.r.returned_count <= Min(res.r.total_count, req.args.max_entities.v)

\* C29: every successful get_entities result is consistent: returned_count is
\* the length of entities and at most min(total_count, max_entities), or 0
\* when that minimum is negative (at most total_count without max_entities);
\* entities_by_layer partitions entities by layer, in scan order and without
\* empty group; layer_summary gives each group's size, and the sizes sum to
\* returned_count
C29_ResultConsistent ==
    Listing =>
        /\ Consistent
        /\ "max_entities" \in DOMAIN req.args =>
               res.r.returned_count
                   <= Max(0, Min(res.r.total_count, req.args.max_entities.v))

\* 100 entities listed from a drawing of 501: 67 on layer "0" and 33 on WALLS
C29_TwoGroups ==
    /\ Listing
    /\ req.fault = {}
    /\ req.args = [max_entities |-> PyInt(100)]
    /\ res.r.total_count = 501
    /\ res.r.returned_count = 100
    /\ res.r.layer_summary = [l \in {"0", "WALLS"} |-> IF l = "0" THEN 67 ELSE 33]
    /\ res.r.entities_by_layer["WALLS"][1].index = 2

\* delete_entity_by_handle replied on the drawing it was called on
DeleteReplied ==
    /\ Replied("delete_entity_by_handle")
    /\ res.exc = "none"
    /\ ConnectedAcross

\* the places of the entities with handle h in the drawing as it was
PlacesOf(h) == {i \in 1..Len(DrawingBefore.ents) : DrawingBefore.ents[i].handle = h}

\* C30: delete_entity_by_handle(h) reports success only if the entity with
\* handle h has been removed from model space, every other entity unchanged;
\* if no entity has handle h, or the external delete call fails, it reports an
\* error and model space is unchanged
C30_SuccessMeansRemoved ==
    DeleteReplied =>
        /\ Succeeded(res.r) =>
               \E i \in PlacesOf(req.args.handle) :
                   DrawingAfter.ents = RemoveAt(DrawingBefore.ents, i)
        /\ ~Succeeded(res.r) =>
               ("error" \in DOMAIN res.r /\ DrawingAfter.ents = DrawingBefore.ents)
        /\ PlacesOf(req.args.handle) = {} => ~Succeeded(res.r)

\* entity.Delete() failed: the entity is still in model space and the result
\* says it was deleted
C30_SuccessButStillThere ==
    /\ DeleteReplied
    /\ req.fault = {8}
    /\ Succeeded(res.r)
    /\ PlacesOf(req.args.handle) = {2}
    /\ Len(DrawingBefore.ents) = 3
    /\ DrawingAfter.ents = DrawingBefore.ents
    /\ obs.sleeps = 1

====
